---- MODULE Spec2Model ----
(***************************************************************************)
(* Batch scan orchestration and checkpoint/resume of pixel-detector.       *)
(*                                                                         *)
(* Entry points are modelled one per value of `program`:                   *)
(*   "pbs"       ProductionBatchScanner.run    (production_batch_scanner)  *)
(*   "prod"      ProductionScanner.run_scanner (production_scanner)        *)
(*   "processor" BatchProcessor.process_batch  (batch_processor)           *)
(*   "manager"   LocalBatchManager.scan_batch  (batch_manager)             *)
(*   "scanner"   PixelScanner.scan_multiple    (scanner)                   *)
(* A behaviour runs one of them, possibly several times in a row (a kill   *)
(* of the process followed by a new start, or a second start after a       *)
(* normal return); memory is lost between runs, the files stay.            *)
(*                                                                         *)
(* Calls into the browser, the file system and the scan executor are the   *)
(* environment: each await is one step whose outcome is drawn from the     *)
(* outcomes the call can produce (a value or an exception).                *)
(***************************************************************************)
EXTENDS Integers, Sequences, FiniteSets, TLC

\* ------------------------------------------------------------------ bounds
Domains == {"a.com", "b.com"}
RawInputs == {"www.a.com", "b.com"}            \* input lines as typed
ConcurrencyLevels == {1, 2}                    \* values of max_concurrent
MaxDomains == 2          \* longest input list of the concurrent runs
MaxBatch == 3            \* longest input list of the chunked runs
MaxRuns == 2             \* process starts in one behaviour
MaxDelay == 2            \* largest initial_delay and max_delay, in seconds
MaxBase == 2             \* largest exponential_base
MaxRetries == 3          \* largest max_retries handed to exponential_backoff_retry
MaxInterval == 2         \* largest checkpoint_interval / checkpoint_every
ChunkSize == 2           \* chunk_size of the chunked runs, scaled down

\* --------------------------------------------------------------- constants
max_retries == 2         \* ProductionBatchScanner.__init__ default
scanner_max_retries == 3 \* PixelScanner.__init__ default
RetryCeiling == 5        \* min(max_retries + 2, 5) in scan_with_semaphore
ps_checkpoint_every == 10 \* `% 10` in ProductionScanner.run_scanner

VARIABLES
    program,             \* which entry point this process runs
    all_domains,         \* the input list (lines of the domains file)
    max_concurrent,      \* size of the admission semaphore
    runs,                \* process starts so far
    failed_scans,        \* history: scans of Watched that returned a failure, all runs
                         \* (negative: the history is not recorded)
    checkpoint_file,     \* the checkpoint file on disk
    temp_file,           \* the ".tmp" sibling of the checkpoint file
    result_files,        \* per-domain result files on disk: name -> success
    \* ProductionBatchScanner / ProductionScanner
    pbs_state,           \* position of run / run_scanner
    completed_domains,   \* self.completed_domains
    failed_domains,      \* self.failed_domains: domain -> retry count
    tasks,               \* the process_domain coroutines handed to gather
    semaphore,           \* value of asyncio.Semaphore(max_concurrent)
    \* PixelScanner.scan_multiple
    sm_state,            \* "start" | "running" | "raised" | "returned"
    health_results,      \* batch_health_check: domain -> verdict
    sm_tasks,            \* the scan_with_semaphore coroutines
    sm_semaphore,        \* value of self.semaphore
    retry_config,        \* self.retry_config.max_retries
    sm_results,          \* the list scan_multiple returns
    \* BatchProcessor / LocalBatchManager (one control loop over chunks)
    bp_state,            \* position of process_batch / scan_batch
    bp_domains,          \* the list the loop runs over
    bp_i,                \* loop variable i (offset of the current chunk)
    bp_chunk,            \* chunk_to_process / chunk
    bp_results,          \* results of the current chunk
    bp_k,                \* index of the result being recorded
    bp_completed,        \* self.completed_domains / self.completed
    bp_failed,           \* self.failed_domains / self.failed
    bp_after,            \* what follows the checkpoint being written
    checkpoint_interval, \* checkpoint_interval / checkpoint_every
    should_stop,         \* self.should_stop
    unsaved,             \* outcomes recorded since the last checkpoint write
    \* PixelScanner.scan_domain / exponential_backoff_retry
    sd_state,            \* position of scan_domain
    rt_max_retries,      \* self.retry_config.max_retries as passed to the retry
    rt_args,             \* initial_delay, max_delay, exponential_base, jitter as passed
    attempt,             \* loop variable of exponential_backoff_retry
    last_exception,      \* last_exception
    delay,               \* delay of the sleep, in tenths of a second
    calls,               \* history: calls of func so far
    navigated,           \* history: what page.goto did in the latest _scan_domain_impl
    raised,              \* the exception exponential_backoff_retry raised
    sd_result,           \* the ScanResult scan_domain returned
    \* ProductionBatchScanner.scan_with_redirect / ProductionScanner.scan_domain
    vr_state,            \* position of the scan
    vr_domain,           \* the domain argument, as a list of string pieces
    try_variations,      \* self.try_variations (ProductionScanner)
    variations,          \* variations / urls_to_try
    vr_i,                \* index of url_variant in variations
    last_error,          \* last_error
    contexts,            \* variant indices whose browser context is open
    navigations,         \* history: the page.goto calls made, with what each did
    vr_result,           \* the ScanResult returned
    \* production_scanner.ProductionScanner, portfolio mode
    pf_state,            \* position of the pipeline
    input_rows,          \* the rows of the input CSV
    pf_i,                \* rows read by _preprocess_csv / written by the output
    id_to_domain,        \* self.id_to_domain
    pf_domains_to_scan,  \* self.domains_to_scan
    pf_remaining,        \* process_domain tasks not yet finished
    scanned,             \* history: the domains passed to scan_domain
    scan_results,        \* scan_results: the result file of each domain
    output,              \* the rows written to final_output_csv
    \* detectors.BasePixelDetector and the detection phase of _scan_domain_impl
    scan_pc,             \* position of each scan attempt
    detectors,           \* the detector instances each scan holds
    dt_i,                \* per scan: detectors whose checks were run
    total_requests,      \* per scan: total_requests
    dt_attempt,          \* per scan: attempt of exponential_backoff_retry
    pixels_detected,     \* per scan: pixels_detected of the returned result
    detection            \* what build_detection returned, when it was the last call

commonVars == <<program, all_domains, max_concurrent, runs, failed_scans>>
diskVars == <<checkpoint_file, temp_file, result_files>>
pbsVars == <<pbs_state, completed_domains, failed_domains, tasks, semaphore>>
smVars == <<sm_state, health_results, sm_tasks, sm_semaphore, retry_config, sm_results>>
bpVars == <<bp_state, bp_domains, bp_i, bp_chunk, bp_results, bp_k, bp_completed,
            bp_failed, bp_after, checkpoint_interval, should_stop, unsaved>>
retryVars == <<sd_state, rt_max_retries, rt_args, attempt, last_exception, delay, calls,
               navigated, raised, sd_result>>
variantVars == <<vr_state, vr_domain, try_variations, variations, vr_i, last_error, contexts,
                 navigations, vr_result>>
portfolioVars == <<pf_state, input_rows, pf_i, id_to_domain, pf_domains_to_scan,
                   pf_remaining, scanned, scan_results, output>>
detectorVars == <<scan_pc, detectors, dt_i, total_requests, dt_attempt, pixels_detected,
                  detection>>
vars == <<commonVars, diskVars, pbsVars, smVars, bpVars, retryVars, variantVars,
          portfolioVars, detectorVars>>

\* ----------------------------------------------------------------- helpers
\* dict.get(k, default), d[k] = v, del d[k]
EmptyDict == [x \in {} |-> 0]
Get(f, k, default) == IF k \in DOMAIN f THEN f[k] ELSE default
Put(f, k, v) == [x \in (DOMAIN f) \cup {k} |-> IF x = k THEN v ELSE f[x]]
Del(f, k) == [x \in (DOMAIN f) \ {k} |-> f[x]]

\* [x for x in s if Keep(x)]
RECURSIVE Filter(_, _)
Filter(s, keep) ==
    IF s = <<>> THEN <<>>
    ELSE IF Head(s) \in keep THEN <<Head(s)>> \o Filter(Tail(s), keep)
         ELSE Filter(Tail(s), keep)

\* [x for x in s if x not in drop]
RECURSIVE FilterOut(_, _)
FilterOut(s, drop) ==
    IF s = <<>> THEN <<>>
    ELSE IF Head(s) \in drop THEN FilterOut(Tail(s), drop)
         ELSE <<Head(s)>> \o FilterOut(Tail(s), drop)

Range(s) == {s[i] : i \in 1..Len(s)}
Min(a, b) == IF a < b THEN a ELSE b

\* Input files.  Domain names are interchangeable, so the first line is fixed.
InputLists == {s \in UNION {[1..n -> Domains] : n \in 1..MaxDomains} : s[1] = "a.com"}
BatchLists == UNION {[1..n -> RawInputs] : n \in 1..MaxBatch}

\* A file on disk: absent, torn (opened for writing, content not complete:
\* json.load fails on it) or holding one complete JSON document.
NoFile == [state |-> "absent", completed |-> {}, failed |-> EmptyDict, remaining |-> <<>>]
Torn == [state |-> "torn", completed |-> {}, failed |-> EmptyDict, remaining |-> <<>>]
Document(c, f, r) == [state |-> "ok", completed |-> c, failed |-> f, remaining |-> r]

\* Paths.  The checkpoint file, and what Path.with_suffix(".tmp") makes of it
\* (its variant: the writer opens the checkpoint path itself).
CheckpointPath == "checkpoint"
with_suffix_Same(path) == path
with_suffix(path) == "tmp"

\* open(path, "w"): the file at path is created or truncated.
Truncate(path) ==
    /\ checkpoint_file' = IF path = CheckpointPath THEN Torn ELSE checkpoint_file
    /\ temp_file' = IF path = CheckpointPath THEN temp_file ELSE Torn

\* json.dump(document, f) up to the close of the `with` block.
Dump(path, document) ==
    /\ checkpoint_file' = IF path = CheckpointPath THEN document ELSE checkpoint_file
    /\ temp_file' = IF path = CheckpointPath THEN temp_file ELSE document

\* Path.replace(target): one rename; a path renamed to itself stays.
Replace(path, target) ==
    IF path = target
    THEN UNCHANGED <<checkpoint_file, temp_file>>
    ELSE checkpoint_file' = temp_file /\ temp_file' = NoFile

\* ===================================================== ProductionBatchScanner
NoTask == [domain |-> "", pc |-> "done", retry_count |-> 0, result |-> "none",
           snapshot |-> {}, data |-> NoFile]
NewTask(d) == [NoTask EXCEPT !.domain = d, !.pc = "wait"]

\* load_checkpoint: a missing file and a file that does not parse both leave
\* the ledger of __init__ (empty); the exception is logged and swallowed.
\* (Its variant never reads the file.)
pbs_load_checkpoint_Fresh(file) == [completed |-> {}, failed |-> EmptyDict]
pbs_load_checkpoint(file) ==
    IF file.state = "ok"
    THEN [completed |-> file.completed, failed |-> file.failed]
    ELSE [completed |-> {}, failed |-> EmptyDict]

\* `async with semaphore`: a permit is free and every earlier task has
\* already been admitted (asyncio wakes waiters first-in first-out, and
\* gather starts the tasks in list order).  Its variant admits a task without
\* looking at the permits.
SemaphoreFree_NoGate(i) == \A j \in 1..(i - 1) : tasks[j].pc # "wait"
SemaphoreFree(i) ==
    /\ semaphore > 0
    /\ \A j \in 1..(i - 1) : tasks[j].pc # "wait"

\* run, up to the gather: read the file, load the checkpoint, filter,
\* create one process_domain task per remaining input line.
run ==
    /\ program = "pbs"
    /\ pbs_state \in {"start", "returned", "killed"}
    /\ runs < MaxRuns
    /\ runs = 0 \/ checkpoint_file.state # "absent"
    /\ runs' = runs + 1
    /\ LET ledger == pbs_load_checkpoint(checkpoint_file)
           domains_to_scan == Filter(all_domains, Domains \ ledger.completed)
       IN /\ completed_domains' = ledger.completed
          /\ failed_domains' = ledger.failed
          /\ IF domains_to_scan = <<>>
             THEN /\ pbs_state' = "returned"
                  /\ tasks' = <<>>
             ELSE /\ pbs_state' = "running"
                  /\ tasks' = [i \in 1..Len(domains_to_scan) |-> NewTask(domains_to_scan[i])]
          /\ semaphore' = max_concurrent
    /\ UNCHANGED <<smVars, bpVars, program, all_domains, max_concurrent, failed_scans, retryVars, variantVars, portfolioVars, detectorVars, diskVars>>

\* process_domain from the acquire to the first await: the two skip checks
\* run in the same step as the acquire.
process_domain_enter(i) ==
    /\ program = "pbs"
    /\ pbs_state = "running"
    /\ tasks[i].pc = "wait"
    /\ SemaphoreFree(i)
    /\ LET d == tasks[i].domain
           retry_count == Get(failed_domains, d, 0)
       IN IF d \in completed_domains \/ retry_count >= max_retries
          THEN /\ tasks' = [tasks EXCEPT ![i].pc = "done"]
               /\ UNCHANGED semaphore
          ELSE /\ tasks' = [tasks EXCEPT ![i].pc = "scan", ![i].retry_count = retry_count]
               /\ semaphore' = semaphore - 1
    /\ UNCHANGED <<smVars, bpVars, commonVars, retryVars, variantVars, portfolioVars, detectorVars, diskVars, pbs_state, completed_domains, failed_domains>>

\* await self.scan_with_redirect(domain, browser): a result with success, a
\* result without (its error naming DNS or not), or an exception that leaves
\* process_domain (the permit is released, gather keeps the exception).
\* Both ScanResult(...) calls of scan_with_redirect (lines 264, 284) omit
\* scan_metadata, which the model class requires: with the class as declared
\* the outcome is "raise".  The returned results stay among the outcomes so
\* that the rest of process_domain is described as written.
ScanOutcomes == {"ok", "fail", "dns", "raise"}

\* The history of failing scans after one more of d: the scans of the first
\* input line are counted where the history is recorded, and the count stops
\* one past the retry budget.
Watched == "a.com"
Counted(history, d) ==
    IF d = Watched /\ history >= 0 THEN Min(history + 1, max_retries + 1) ELSE history

scan_with_redirect(i) ==
    /\ program = "pbs"
    /\ pbs_state = "running"
    /\ tasks[i].pc = "scan"
    /\ \E o \in ScanOutcomes :
         /\ IF o = "raise"
            THEN /\ tasks' = [tasks EXCEPT ![i].pc = "done"]
                 /\ semaphore' = semaphore + 1
            ELSE /\ tasks' = [tasks EXCEPT ![i].pc = "save_result", ![i].result = o]
                 /\ UNCHANGED semaphore
         /\ failed_scans' = IF o \in {"fail", "dns"}
                            THEN Counted(failed_scans, tasks[i].domain)
                            ELSE failed_scans
    /\ UNCHANGED <<smVars, bpVars, program, all_domains, max_concurrent, runs, retryVars, variantVars, portfolioVars, detectorVars, diskVars,
                   pbs_state,
                   completed_domains, failed_domains>>

\* The ledger update of process_domain (lines 342-349).
UpdateTracking(ledger, d, success, retry_count) ==
    IF success
    THEN [completed |-> ledger.completed \cup {d}, failed |-> Del(ledger.failed, d)]
    ELSE [completed |-> ledger.completed, failed |-> Put(ledger.failed, d, retry_count + 1)]

\* await self.save_result(result), then the ledger update, up to the next
\* await: the DNS sleep, or the open of save_checkpoint.  save_result logs and
\* swallows a failed write.
save_result(i) ==
    /\ program = "pbs"
    /\ pbs_state = "running"
    /\ tasks[i].pc = "save_result"
    /\ LET d == tasks[i].domain
           success == tasks[i].result = "ok"
           ledger == UpdateTracking([completed |-> completed_domains, failed |-> failed_domains],
                                    d, success, tasks[i].retry_count)
       IN /\ \E written \in BOOLEAN :
               result_files' = IF written THEN Put(result_files, d, success) ELSE result_files
          /\ completed_domains' = ledger.completed
          /\ failed_domains' = ledger.failed
          /\ tasks' = IF tasks[i].result = "dns"
                      THEN [tasks EXCEPT ![i].pc = "dns_sleep"]
                      ELSE [tasks EXCEPT ![i].pc = "ckpt_open", ![i].snapshot = ledger.completed]
    /\ UNCHANGED <<smVars, bpVars, commonVars, retryVars, variantVars, portfolioVars, detectorVars, checkpoint_file, temp_file, pbs_state, semaphore>>

\* await asyncio.sleep(self.dns_retry_delay), then save_checkpoint builds
\* checkpoint_data: "completed" is copied now, "failed" is the dict itself.
dns_sleep(i) ==
    /\ program = "pbs"
    /\ pbs_state = "running"
    /\ tasks[i].pc = "dns_sleep"
    /\ tasks' = [tasks EXCEPT ![i].pc = "ckpt_open", ![i].snapshot = completed_domains]
    /\ UNCHANGED <<smVars, bpVars, commonVars, retryVars, variantVars, portfolioVars, detectorVars, diskVars, pbs_state, completed_domains, failed_domains, semaphore>>

\* save_checkpoint, `aiofiles.open(self.checkpoint_file, 'w')`: the open
\* truncates the checkpoint file itself; json.dumps runs once it returns.
\* An exception is logged and swallowed.
save_checkpoint_open(i) ==
    /\ program = "pbs"
    /\ pbs_state = "running"
    /\ tasks[i].pc = "ckpt_open"
    /\ \E opened \in BOOLEAN :
         IF opened
         THEN /\ checkpoint_file' = Torn
              /\ tasks' = [tasks EXCEPT ![i].pc = "ckpt_write",
                                        ![i].data = Document(tasks[i].snapshot, failed_domains, <<>>)]
         ELSE /\ tasks' = [tasks EXCEPT ![i].pc = "progress"]
              /\ UNCHANGED checkpoint_file
    /\ UNCHANGED <<smVars, bpVars, commonVars, retryVars, variantVars, portfolioVars, detectorVars, temp_file, result_files, pbs_state, completed_domains,
                   failed_domains, semaphore>>

\* save_checkpoint, `await f.write(...)` and the close of the file.
save_checkpoint_write(i) ==
    /\ program = "pbs"
    /\ pbs_state = "running"
    /\ tasks[i].pc = "ckpt_write"
    /\ \E wrote \in BOOLEAN :
         checkpoint_file' = IF wrote THEN tasks[i].data ELSE checkpoint_file
    /\ tasks' = [tasks EXCEPT ![i].pc = "progress", ![i].data = NoFile]
    /\ UNCHANGED <<smVars, bpVars, commonVars, retryVars, variantVars, portfolioVars, detectorVars, temp_file, result_files, pbs_state, completed_domains,
                   failed_domains, semaphore>>

\* await self.update_progress(), the progress log line, and the end of the
\* `async with`: the permit is released.
update_progress(i) ==
    /\ program = "pbs"
    /\ pbs_state = "running"
    /\ tasks[i].pc = "progress"
    /\ tasks' = [tasks EXCEPT ![i].pc = "done", ![i].snapshot = {}]
    /\ semaphore' = semaphore + 1
    /\ UNCHANGED <<smVars, bpVars, commonVars, retryVars, variantVars, portfolioVars, detectorVars, diskVars, pbs_state, completed_domains, failed_domains>>

\* gather returns once every task has finished; run closes the browser and
\* writes the summary.
run_return ==
    /\ program = "pbs"
    /\ pbs_state = "running"
    /\ \A i \in DOMAIN tasks : tasks[i].pc = "done"
    /\ pbs_state' = "returned"
    /\ UNCHANGED <<smVars, bpVars, commonVars, retryVars, variantVars, portfolioVars, detectorVars, diskVars, completed_domains, failed_domains, tasks, semaphore>>

\* The process is killed: memory and coroutines are gone, files stay as
\* they are.
pbs_kill ==
    /\ program \in {"pbs", "prod"}
    /\ pbs_state \in {"running", "ckpt_open", "ckpt_write"}
    /\ pbs_state' = "killed"
    /\ completed_domains' = {}
    /\ failed_domains' = EmptyDict
    /\ tasks' = <<>>
    /\ semaphore' = 0
    /\ UNCHANGED <<smVars, bpVars, commonVars, retryVars, variantVars, portfolioVars, detectorVars, diskVars>>

IdlePBS ==
    /\ pbs_state = "start"
    /\ completed_domains = {}
    /\ failed_domains = EmptyDict
    /\ tasks = <<>>
    /\ semaphore = 0

IdleSM ==
    /\ sm_state = "start"
    /\ health_results = EmptyDict
    /\ sm_tasks = <<>>
    /\ sm_semaphore = 0
    /\ retry_config = scanner_max_retries
    /\ sm_results = <<>>

NoResult == [success |-> FALSE, error_message |-> "unset"]

NoArgs == [initial_delay |-> 0, max_delay |-> 0, exponential_base |-> 1, jitter |-> FALSE]

IdleScan ==
    /\ sd_state = "idle"
    /\ rt_max_retries = 0
    /\ rt_args = NoArgs
    /\ attempt = 0
    /\ last_exception = "none"
    /\ delay = 0
    /\ calls = 0
    /\ navigated = "none"
    /\ raised = "none"
    /\ sd_result = NoResult

\* last_error = None, and no ScanResult yet.
NoError == [variant |-> 0, kind |-> "none"]
NoScan == [success |-> FALSE, error_message |-> NoError, url_scanned |-> <<>>]

IdleVariants ==
    /\ vr_state = "idle"
    /\ vr_domain = <<>>
    /\ try_variations = TRUE
    /\ variations = <<>>
    /\ vr_i = 0
    /\ last_error = NoError
    /\ contexts = {}
    /\ navigations = <<>>
    /\ vr_result = NoScan

\* The custom_id values of the input, and id_to_domain before any row is read.
Ids == {"A", "B"}
NoEntry == [valid |-> FALSE, domain |-> "", error |-> "unset"]
IdlePortfolio ==
    /\ pf_state = "idle"
    /\ input_rows = <<>>
    /\ pf_i = 0
    /\ id_to_domain = [c \in Ids |-> NoEntry]
    /\ pf_domains_to_scan = <<>>
    /\ pf_remaining = {}
    /\ scanned = <<>>
    /\ scan_results = [d \in {} |-> "none"]
    /\ output = <<>>

\* The two values that are no PixelDetection: Python's None, and no call yet.
None == [type |-> "None"]
NotCalled == [type |-> "not called"]

\* No scan is running and no detector exists.
IdleDetectors ==
    /\ scan_pc = <<>>
    /\ detectors = <<>>
    /\ dt_i = <<>>
    /\ total_requests = <<>>
    /\ dt_attempt = <<>>
    /\ pixels_detected = <<>>
    /\ detection = NotCalled

IdleBP ==
    /\ bp_state = "start"
    /\ bp_domains = <<>>
    /\ bp_i = 0
    /\ bp_chunk = <<>>
    /\ bp_results = <<>>
    /\ bp_k = 0
    /\ bp_completed = {}
    /\ bp_failed = EmptyDict
    /\ bp_after = "none"
    /\ checkpoint_interval = 1
    /\ should_stop = FALSE
    /\ unsaved = 0

EmptyDisk ==
    /\ checkpoint_file = NoFile
    /\ temp_file = NoFile
    /\ result_files = EmptyDict

InitPBS ==
    /\ program = "pbs"
    /\ all_domains \in InputLists
    /\ max_concurrent \in ConcurrencyLevels
    /\ runs = 0
    /\ failed_scans = -1
    /\ EmptyDisk
    /\ IdlePBS
    /\ IdleSM
    /\ IdleScan
    /\ IdleVariants
    /\ IdlePortfolio
    /\ IdleDetectors
    /\ IdleBP

\* The same runs with the history of failing scans recorded.
InitRetry ==
    /\ program = "pbs"
    /\ all_domains \in InputLists
    /\ max_concurrent \in ConcurrencyLevels
    /\ runs = 0
    /\ failed_scans = 0
    /\ EmptyDisk
    /\ IdlePBS
    /\ IdleSM
    /\ IdleScan
    /\ IdleVariants
    /\ IdlePortfolio
    /\ IdleDetectors
    /\ IdleBP

NextPBS ==
    \/ run
    \/ \E i \in DOMAIN tasks : process_domain_enter(i)
    \/ \E i \in DOMAIN tasks : scan_with_redirect(i)
    \/ \E i \in DOMAIN tasks : save_result(i)
    \/ \E i \in DOMAIN tasks : dns_sleep(i)
    \/ \E i \in DOMAIN tasks : save_checkpoint_open(i)
    \/ \E i \in DOMAIN tasks : save_checkpoint_write(i)
    \/ \E i \in DOMAIN tasks : update_progress(i)
    \/ run_return
    \/ pbs_kill

SpecPBS == InitPBS /\ [][NextPBS]_vars
SpecRetry == InitRetry /\ [][NextPBS]_vars

\* The runs in which the checkpoint file can always be opened and written:
\* no open or write of save_checkpoint raises.
DiskWorks ==
    \A i \in DOMAIN tasks :
        i \in DOMAIN tasks' =>
            /\ (tasks[i].pc = "ckpt_open" /\ tasks'[i].pc # "ckpt_open")
                   => tasks'[i].pc = "ckpt_write"
            /\ (tasks[i].pc = "ckpt_write" /\ tasks'[i].pc # "ckpt_write")
                   => checkpoint_file' = tasks[i].data

NextDiskWorks ==
    \/ run
    \/ \E i \in DOMAIN tasks : process_domain_enter(i)
    \/ \E i \in DOMAIN tasks : scan_with_redirect(i)
    \/ \E i \in DOMAIN tasks : save_result(i)
    \/ \E i \in DOMAIN tasks : dns_sleep(i)
    \/ \E i \in DOMAIN tasks : save_checkpoint_open(i) /\ DiskWorks
    \/ \E i \in DOMAIN tasks : save_checkpoint_write(i) /\ DiskWorks
    \/ \E i \in DOMAIN tasks : update_progress(i)
    \/ run_return
    \/ pbs_kill

SpecDiskWorks == InitPBS /\ [][NextDiskWorks]_vars

\* ======================================== production_scanner.ProductionScanner
\* preprocess_input keeps the first occurrence of each valid domain.
UniqueLists == {s \in InputLists : \A i, j \in 1..Len(s) : s[i] = s[j] => i = j}

\* load_checkpoint: `except: pass` around the read.
ps_load_checkpoint(file) == IF file.state = "ok" THEN file.completed ELSE {}

\* run_scanner up to the gather: nothing left to scan returns at once.
run_scanner ==
    /\ program = "prod"
    /\ pbs_state \in {"start", "returned", "killed", "raised"}
    /\ runs < MaxRuns
    /\ runs = 0 \/ checkpoint_file.state # "absent"
    /\ runs' = runs + 1
    /\ LET completed == ps_load_checkpoint(checkpoint_file)
           remaining == FilterOut(all_domains, completed)
       IN /\ completed_domains' = completed
          /\ IF remaining = <<>>
             THEN /\ pbs_state' = "returned"
                  /\ tasks' = <<>>
             ELSE /\ pbs_state' = "running"
                  /\ tasks' = [i \in 1..Len(remaining) |-> NewTask(remaining[i])]
    /\ semaphore' = max_concurrent
    /\ UNCHANGED <<smVars, bpVars, program, all_domains, max_concurrent, failed_scans, retryVars, variantVars, portfolioVars, detectorVars, diskVars, failed_domains>>

\* process_domain from the acquire to the await of scan_domain.
ps_process_domain_enter(i) ==
    /\ program = "prod"
    /\ pbs_state = "running"
    /\ tasks[i].pc = "wait"
    /\ SemaphoreFree(i)
    /\ IF tasks[i].domain \in completed_domains
       THEN /\ tasks' = [tasks EXCEPT ![i].pc = "done"]
            /\ UNCHANGED semaphore
       ELSE /\ tasks' = [tasks EXCEPT ![i].pc = "scan"]
            /\ semaphore' = semaphore - 1
    /\ UNCHANGED <<smVars, bpVars, commonVars, retryVars, variantVars, portfolioVars, detectorVars, diskVars, pbs_state, completed_domains, failed_domains>>

\* `await self.scan_domain(domain, browser)` returns a result (scan_domain
\* catches what a variant raises); then, with no await in between, the result
\* file, completed_domains.add, and the test for the cadence checkpoint.  A
\* failed write of the result file leaves process_domain.
ps_scan_domain(i) ==
    /\ program = "prod"
    /\ pbs_state = "running"
    /\ tasks[i].pc = "scan"
    /\ \E success \in BOOLEAN, written \in BOOLEAN :
         IF written
         THEN /\ result_files' = Put(result_files, tasks[i].domain, success)
              /\ completed_domains' = completed_domains \cup {tasks[i].domain}
              /\ IF Cardinality(completed_domains') % ps_checkpoint_every = 0
                 THEN /\ tasks' = [tasks EXCEPT ![i].pc = "ckpt"]
                      /\ pbs_state' = "ckpt_open"
                      /\ UNCHANGED semaphore
                 ELSE /\ tasks' = [tasks EXCEPT ![i].pc = "done"]
                      /\ semaphore' = semaphore + 1
                      /\ UNCHANGED pbs_state
         ELSE /\ tasks' = [tasks EXCEPT ![i].pc = "done"]
              /\ semaphore' = semaphore + 1
              /\ UNCHANGED <<result_files, completed_domains, pbs_state>>
    /\ UNCHANGED <<smVars, bpVars, commonVars, retryVars, variantVars, portfolioVars, detectorVars, checkpoint_file, temp_file, failed_domains>>

\* gather has returned and the browser is closed: the final checkpoint.
ps_final_checkpoint ==
    /\ program = "prod"
    /\ pbs_state = "running"
    /\ \A i \in DOMAIN tasks : tasks[i].pc = "done"
    /\ pbs_state' = "ckpt_open"
    /\ UNCHANGED <<smVars, bpVars, commonVars, retryVars, variantVars, portfolioVars, detectorVars, diskVars, completed_domains, failed_domains, tasks, semaphore>>

\* What follows a save_checkpoint call: the end of the process_domain that
\* made it, or the end of run_scanner.
ps_after_checkpoint(failed) ==
    IF \E i \in DOMAIN tasks : tasks[i].pc = "ckpt"
    THEN /\ tasks' = [i \in DOMAIN tasks |->
                         IF tasks[i].pc = "ckpt" THEN [tasks[i] EXCEPT !.pc = "done"] ELSE tasks[i]]
         /\ semaphore' = semaphore + 1
         /\ pbs_state' = "running"
    ELSE /\ pbs_state' = IF failed THEN "raised" ELSE "returned"
         /\ UNCHANGED <<tasks, semaphore>>

\* save_checkpoint, `open(self.checkpoint_file, "w")`: the checkpoint file
\* itself is truncated.  save_checkpoint has no await: no task runs until it
\* has returned.
ps_save_checkpoint_open ==
    /\ program = "prod"
    /\ pbs_state = "ckpt_open"
    /\ \/ /\ Truncate(CheckpointPath)
          /\ pbs_state' = "ckpt_write"
          /\ UNCHANGED <<tasks, semaphore>>
       \/ /\ ps_after_checkpoint(TRUE)
          /\ UNCHANGED <<checkpoint_file, temp_file>>
    /\ UNCHANGED <<smVars, bpVars, commonVars, retryVars, variantVars, portfolioVars, detectorVars, result_files, completed_domains, failed_domains>>

\* save_checkpoint, `json.dump(checkpoint, f, indent=2)` and the close.
ps_save_checkpoint_write ==
    /\ program = "prod"
    /\ pbs_state = "ckpt_write"
    /\ Dump(CheckpointPath, Document(completed_domains, EmptyDict, <<>>))
    /\ ps_after_checkpoint(FALSE)
    /\ UNCHANGED <<smVars, bpVars, commonVars, retryVars, variantVars, portfolioVars, detectorVars, result_files, completed_domains, failed_domains>>

InitPS ==
    /\ program = "prod"
    /\ all_domains \in UniqueLists
    /\ max_concurrent \in ConcurrencyLevels
    /\ runs = 0
    /\ failed_scans = -1
    /\ EmptyDisk
    /\ IdlePBS
    /\ IdleSM
    /\ IdleScan
    /\ IdleVariants
    /\ IdlePortfolio
    /\ IdleDetectors
    /\ IdleBP

NextPS ==
    \/ run_scanner
    \/ \E i \in DOMAIN tasks : ps_process_domain_enter(i)
    \/ \E i \in DOMAIN tasks : ps_scan_domain(i)
    \/ ps_final_checkpoint
    \/ ps_save_checkpoint_open
    \/ ps_save_checkpoint_write
    \/ pbs_kill

SpecPS == InitPS /\ [][NextPS]_vars

\* Both writers that open the checkpoint file itself.
InitDirect == InitPS \/ InitPBS
NextDirect == NextPS \/ NextPBS
SpecDirect == InitDirect /\ [][NextDirect]_vars

\* ================================================ PixelScanner.scan_multiple
\* URLNormalizer.normalize_url, second component: the host in lower case
\* without a leading "www.".
clean_domain(d) == IF d = "www.a.com" THEN "a.com" ELSE d

HealthVerdicts == {"healthy", "protected", "skip"}
\* HealthCheckResult.should_skip / should_retry
should_skip(h) == h = "skip"
should_retry(h) == h = "protected"

SmNoTask == [domain |-> "", pc |-> "done", result |-> "none"]

\* scan_multiple up to the gather: the health checks, the filter, the
\* failure results of the skipped domains, one task per domain left.
scan_multiple ==
    /\ program = "scanner"
    /\ sm_state = "start"
    /\ \E h \in [Range(all_domains) -> HealthVerdicts] :
         LET skipped == {d \in Range(all_domains) : should_skip(h[d])}
             domains_to_scan == Filter(all_domains, RawInputs \ skipped)
             skipped_list == Filter(all_domains, skipped)
         IN /\ health_results' = h
            /\ sm_results' = [n \in 1..Len(skipped_list) |->
                                 [domain |-> skipped_list[n], success |-> FALSE]]
            /\ sm_tasks' = [n \in 1..Len(domains_to_scan) |->
                               [SmNoTask EXCEPT !.domain = domains_to_scan[n], !.pc = "wait"]]
            /\ sm_state' = IF domains_to_scan = <<>> THEN "returned" ELSE "running"
    /\ sm_semaphore' = max_concurrent
    /\ UNCHANGED <<pbsVars, bpVars, commonVars, retryVars, variantVars, portfolioVars, detectorVars, diskVars, retry_config>>

\* `async with self.semaphore`, first-in first-out as above.
SmSemaphoreFree(i) ==
    /\ sm_semaphore > 0
    /\ \A j \in 1..(i - 1) : sm_tasks[j].pc # "wait"

\* scan_with_semaphore from the acquire to the first await inside scan_domain:
\* a protected domain raises the retry budget of the scanner.
scan_with_semaphore(i) ==
    /\ sm_state \in {"running", "raised"}
    /\ sm_tasks[i].pc = "wait"
    /\ SmSemaphoreFree(i)
    /\ sm_semaphore' = sm_semaphore - 1
    /\ retry_config' =
         IF should_retry(health_results[sm_tasks[i].domain])
         THEN IF retry_config + 2 < RetryCeiling THEN retry_config + 2 ELSE RetryCeiling
         ELSE retry_config
    /\ sm_tasks' = [sm_tasks EXCEPT ![i].pc = "scan"]
    /\ UNCHANGED <<pbsVars, bpVars, commonVars, retryVars, variantVars, portfolioVars, detectorVars, diskVars, sm_state, health_results, sm_results>>

\* await self.scan_domain(domain): a ScanResult, or an exception that
\* scan_domain does not catch; gather(return_exceptions=False) hands the
\* first exception to the caller at once and leaves the other tasks running.
scan_domain(i) ==
    /\ sm_state \in {"running", "raised"}
    /\ sm_tasks[i].pc = "scan"
    /\ \E o \in {"ok", "fail", "raise"} :
         IF o = "raise"
         THEN /\ sm_tasks' = [sm_tasks EXCEPT ![i].pc = "done"]
              /\ sm_semaphore' = sm_semaphore + 1
              /\ sm_state' = "raised"
         ELSE /\ sm_tasks' = [sm_tasks EXCEPT ![i].pc = "sleep", ![i].result = o]
              /\ UNCHANGED <<sm_semaphore, sm_state>>
    /\ UNCHANGED <<pbsVars, bpVars, commonVars, retryVars, variantVars, portfolioVars, detectorVars, diskVars, health_results, retry_config, sm_results>>

\* await asyncio.sleep(0.5), still inside the `async with`; then the release.
scan_delay(i) ==
    /\ sm_state \in {"running", "raised"}
    /\ sm_tasks[i].pc = "sleep"
    /\ sm_tasks' = [sm_tasks EXCEPT ![i].pc = "done"]
    /\ sm_semaphore' = sm_semaphore + 1
    /\ UNCHANGED <<pbsVars, bpVars, commonVars, retryVars, variantVars, portfolioVars, detectorVars, diskVars, sm_state, health_results, retry_config, sm_results>>

\* gather returns the results in task order; results.extend(scan_results).
scan_multiple_return ==
    /\ sm_state = "running"
    /\ \A i \in DOMAIN sm_tasks : sm_tasks[i].pc = "done"
    /\ sm_results' = sm_results \o
         [n \in 1..Len(sm_tasks) |->
             [domain |-> clean_domain(sm_tasks[n].domain), success |-> sm_tasks[n].result = "ok"]]
    /\ sm_state' = "returned"
    /\ UNCHANGED <<pbsVars, bpVars, commonVars, retryVars, variantVars, portfolioVars, detectorVars, diskVars, health_results, sm_tasks, sm_semaphore, retry_config>>

InitSM ==
    /\ program = "scanner"
    /\ all_domains \in UNION {[1..n -> RawInputs] : n \in 1..MaxDomains}
    /\ max_concurrent \in ConcurrencyLevels
    /\ runs = 0
    /\ failed_scans = -1
    /\ EmptyDisk
    /\ IdlePBS
    /\ IdleSM
    /\ IdleScan
    /\ IdleVariants
    /\ IdlePortfolio
    /\ IdleDetectors
    /\ IdleBP

NextSM ==
    \/ scan_multiple
    \/ \E i \in DOMAIN sm_tasks : scan_with_semaphore(i)
    \/ \E i \in DOMAIN sm_tasks : scan_domain(i)
    \/ \E i \in DOMAIN sm_tasks : scan_delay(i)
    \/ scan_multiple_return

SpecSM == InitSM /\ [][NextSM]_vars

\* Both admission gates: a ProductionBatchScanner run or a scan_multiple call.
InitGate == InitPBS \/ InitSM
NextGate == NextPBS \/ NextSM
SpecGate == InitGate /\ [][NextGate]_vars

\* ============================================== BatchProcessor.process_batch
\* What `await scanner.scan_multiple(chunk)` returns to the chunk loop when
\* every domain passes the health check: one result per domain, in list
\* order, each under the clean domain scan_domain computed (scanner.py 253).
ResultDomain(d) == clean_domain(d)

ScanMultipleResults(chunk, ok) ==
    [n \in 1..Len(chunk) |-> [domain |-> ResultDomain(chunk[n]), success |-> n \in ok]]

ScanMultipleOutcomes(chunk) ==
    {ScanMultipleResults(chunk, ok) : ok \in SUBSET (1..Len(chunk))}

\* for domain in chunk_to_process: self.failed_domains[domain] = str(e)
RECURSIVE MarkFailed(_, _)
MarkFailed(failed, chunk) ==
    IF chunk = <<>> THEN failed
    ELSE MarkFailed(Put(failed, Head(chunk), "exception"), Tail(chunk))

\* "remaining" of BatchProcessor.save_checkpoint
bp_remaining(domains, completed, failed) == FilterOut(domains, completed)

\* process_batch up to the loop.  A second start resumes from the checkpoint
\* file when there is one; load_checkpoint lets a parse error propagate.
process_batch ==
    /\ program = "processor"
    /\ bp_state \in {"start", "returned", "killed", "raised"}
    /\ runs < MaxRuns
    /\ runs = 0 \/ checkpoint_file.state # "absent"
    /\ runs' = runs + 1
    /\ should_stop' = FALSE
    /\ unsaved' = 0
    /\ bp_i' = 0
    /\ bp_chunk' = <<>>
    /\ bp_results' = <<>>
    /\ bp_k' = 0
    /\ bp_after' = "none"
    /\ IF runs > 0 /\ checkpoint_file.state = "torn"
       THEN /\ bp_state' = "raised"
            /\ bp_completed' = {}
            /\ bp_failed' = EmptyDict
            /\ bp_domains' = <<>>
       ELSE IF runs > 0 /\ checkpoint_file.state = "ok"
       THEN /\ bp_state' = "loop"
            /\ bp_completed' = checkpoint_file.completed
            /\ bp_failed' = checkpoint_file.failed
            /\ bp_domains' = checkpoint_file.remaining
       ELSE /\ bp_state' = "loop"
            /\ bp_completed' = {}
            /\ bp_failed' = EmptyDict
            /\ bp_domains' = all_domains
    /\ UNCHANGED <<pbsVars, smVars, program, all_domains, max_concurrent, failed_scans, retryVars, variantVars, portfolioVars, detectorVars, diskVars,
                   checkpoint_interval>>

\* The head of `for i in range(0, len(domains), chunk_size)`: the end of the
\* loop (final checkpoint), the stop flag (checkpoint, break), an empty
\* chunk_to_process (continue), or the call of scan_multiple.
bp_loop ==
    /\ program = "processor"
    /\ bp_state = "loop"
    /\ IF bp_i >= Len(bp_domains)
       THEN /\ bp_state' = "ckpt_open"
            /\ bp_after' = "return"
            /\ UNCHANGED <<bp_i, bp_chunk>>
       ELSE IF should_stop
       THEN /\ bp_state' = "ckpt_open"
            /\ bp_after' = "break"
            /\ UNCHANGED <<bp_i, bp_chunk>>
       ELSE LET chunk == SubSeq(bp_domains, bp_i + 1, Min(bp_i + ChunkSize, Len(bp_domains)))
                chunk_to_process == FilterOut(chunk, bp_completed)
            IN IF chunk_to_process = <<>>
               THEN /\ bp_i' = bp_i + ChunkSize
                    /\ UNCHANGED <<bp_state, bp_after, bp_chunk>>
               ELSE /\ bp_chunk' = chunk_to_process
                    /\ bp_state' = "scan"
                    /\ UNCHANGED <<bp_i, bp_after>>
    /\ UNCHANGED <<pbsVars, smVars, commonVars, retryVars, variantVars, portfolioVars, detectorVars, diskVars, bp_domains, bp_results, bp_k,
                   bp_completed, bp_failed, checkpoint_interval, should_stop, unsaved>>

\* The `except Exception` of the chunk: every domain of chunk_to_process is
\* marked failed, then gc, then the sleep.
bp_chunk_failed ==
    /\ bp_failed' = MarkFailed(bp_failed, bp_chunk)
    /\ unsaved' = unsaved + Cardinality(Range(bp_chunk))
    /\ bp_state' = "sleep"
    /\ bp_after' = "none"

\* await scanner.scan_multiple(chunk_to_process) returns or raises.
bp_scan_multiple ==
    /\ program = "processor"
    /\ bp_state = "scan"
    /\ \/ /\ bp_results' \in ScanMultipleOutcomes(bp_chunk)
          /\ bp_k' = 1
          /\ bp_state' = "record"
          /\ UNCHANGED <<bp_failed, unsaved, bp_after>>
       \/ /\ bp_chunk_failed
          /\ UNCHANGED <<bp_results, bp_k>>
    /\ UNCHANGED <<pbsVars, smVars, commonVars, retryVars, variantVars, portfolioVars, detectorVars, diskVars, bp_domains, bp_i, bp_chunk,
                   bp_completed, checkpoint_interval, should_stop>>

\* The ledger update for one result (lines 157-160).
bp_record ==
    /\ program = "processor"
    /\ bp_state = "record"
    /\ LET result == bp_results[bp_k]
       IN IF result.success
          THEN /\ bp_completed' = bp_completed \cup {result.domain}
               /\ UNCHANGED bp_failed
          ELSE /\ bp_failed' = Put(bp_failed, result.domain, "error")
               /\ UNCHANGED bp_completed
    /\ unsaved' = unsaved + 1
    /\ bp_state' = "write"
    /\ UNCHANGED <<pbsVars, smVars, commonVars, retryVars, variantVars, portfolioVars, detectorVars, diskVars, bp_domains, bp_i, bp_chunk,
                   bp_results, bp_k, bp_after, checkpoint_interval, should_stop>>

\* `if len(self.completed_domains) % self.checkpoint_interval == 0`
bp_checkpoint_due(completed, failed, interval) == Cardinality(completed) % interval = 0

\* The result file of one result (lines 163-165), the write taken to succeed;
\* after the last result of the chunk, the cadence test.
bp_write ==
    /\ program = "processor"
    /\ bp_state = "write"
    /\ LET result == bp_results[bp_k]
       IN /\ result_files' = Put(result_files, result.domain, result.success)
          /\ IF bp_k < Len(bp_results)
             THEN /\ bp_k' = bp_k + 1
                  /\ bp_state' = "record"
                  /\ UNCHANGED bp_after
             ELSE /\ bp_k' = 0
                  /\ IF bp_checkpoint_due(bp_completed, bp_failed, checkpoint_interval)
                     THEN bp_state' = "ckpt_open" /\ bp_after' = "sleep"
                     ELSE bp_state' = "sleep" /\ UNCHANGED bp_after
    /\ UNCHANGED <<pbsVars, smVars, commonVars, retryVars, variantVars, portfolioVars, detectorVars, checkpoint_file, temp_file, bp_domains, bp_i,
                   bp_chunk, bp_results, bp_completed, bp_failed, checkpoint_interval,
                   should_stop, unsaved>>

\* save_checkpoint, `open(temp_file, "w")`.  An exception reaches the chunk's
\* except when the call is the cadence one, and leaves process_batch otherwise.
bp_save_checkpoint_open ==
    /\ program = "processor"
    /\ bp_state = "ckpt_open"
    /\ \/ /\ Truncate(with_suffix(CheckpointPath))
          /\ bp_state' = "ckpt_write"
          /\ UNCHANGED <<bp_failed, unsaved, bp_after>>
       \/ /\ bp_after = "sleep"
          /\ bp_chunk_failed
          /\ UNCHANGED <<checkpoint_file, temp_file>>
       \/ /\ bp_after # "sleep"
          /\ bp_state' = "raised"
          /\ UNCHANGED <<checkpoint_file, temp_file, bp_failed, unsaved, bp_after>>
    /\ UNCHANGED <<pbsVars, smVars, commonVars, retryVars, variantVars, portfolioVars, detectorVars, result_files, bp_domains,
                   bp_i, bp_chunk, bp_results, bp_k, bp_completed, checkpoint_interval,
                   should_stop>>

\* save_checkpoint, `json.dump(checkpoint_data, f)` and the close.
bp_save_checkpoint_write ==
    /\ program = "processor"
    /\ bp_state = "ckpt_write"
    /\ Dump(with_suffix(CheckpointPath),
            Document(bp_completed, bp_failed, bp_remaining(bp_domains, bp_completed, bp_failed)))
    /\ bp_state' = "ckpt_replace"
    /\ UNCHANGED <<pbsVars, smVars, commonVars, retryVars, variantVars, portfolioVars, detectorVars, result_files, bp_domains,
                   bp_i, bp_chunk, bp_results, bp_k, bp_completed, bp_failed, bp_after,
                   checkpoint_interval, should_stop, unsaved>>

\* save_checkpoint, `temp_file.replace(self.checkpoint_file)`, and what the
\* caller does next: the sleep, the final checkpoint after break, the return.
bp_save_checkpoint_replace ==
    /\ program = "processor"
    /\ bp_state = "ckpt_replace"
    /\ Replace(with_suffix(CheckpointPath), CheckpointPath)
    /\ unsaved' = 0
    /\ IF bp_after = "sleep" THEN bp_state' = "sleep" /\ bp_after' = "none"
       ELSE IF bp_after = "break" THEN bp_state' = "ckpt_open" /\ bp_after' = "return"
       ELSE bp_state' = "returned" /\ bp_after' = "none"
    /\ UNCHANGED <<pbsVars, smVars, commonVars, retryVars, variantVars, portfolioVars, detectorVars, result_files, bp_domains, bp_i, bp_chunk,
                   bp_results, bp_k, bp_completed, bp_failed, checkpoint_interval,
                   should_stop>>

\* await asyncio.sleep(1), then the next i.
bp_sleep ==
    /\ program = "processor"
    /\ bp_state = "sleep"
    /\ bp_i' = bp_i + ChunkSize
    /\ bp_state' = "loop"
    /\ UNCHANGED <<pbsVars, smVars, commonVars, retryVars, variantVars, portfolioVars, detectorVars, diskVars, bp_domains, bp_chunk, bp_results,
                   bp_k, bp_completed, bp_failed, bp_after, checkpoint_interval, should_stop,
                   unsaved>>

Running == {"loop", "scan", "record", "write", "ckpt_open", "ckpt_write", "ckpt_replace", "sleep"}

\* SIGINT / SIGTERM.  The flag is read at the loop head only, so a signal
\* that arrives between two awaits is one that arrives during the next await.
\* The await of scan_multiple is also followed from inside the call (program
\* "scanner"): there the handler of the driver that awaits the call runs.
_handle_shutdown ==
    /\ \/ program \in {"processor", "manager"} /\ bp_state \in {"scan", "sleep"}
       \/ program = "scanner" /\ sm_state = "running"
    /\ ~should_stop
    /\ should_stop' = TRUE
    /\ UNCHANGED <<pbsVars, smVars, commonVars, retryVars, variantVars, portfolioVars, detectorVars, diskVars, bp_state, bp_domains, bp_i, bp_chunk,
                   bp_results, bp_k, bp_completed, bp_failed, bp_after, checkpoint_interval,
                   unsaved>>

\* The process is killed: memory is gone, files stay as they are.
bp_kill ==
    /\ program \in {"processor", "manager"}
    /\ bp_state \in Running
    /\ bp_state' = "killed"
    /\ bp_domains' = <<>>
    /\ bp_i' = 0
    /\ bp_chunk' = <<>>
    /\ bp_results' = <<>>
    /\ bp_k' = 0
    /\ bp_completed' = {}
    /\ bp_failed' = EmptyDict
    /\ bp_after' = "none"
    /\ should_stop' = FALSE
    /\ unsaved' = 0
    /\ UNCHANGED <<pbsVars, smVars, commonVars, retryVars, variantVars, portfolioVars, detectorVars, diskVars, checkpoint_interval>>

InitBP ==
    /\ program = "processor"
    /\ all_domains \in BatchLists
    /\ max_concurrent \in {1}
    /\ runs = 0
    /\ failed_scans = -1
    /\ EmptyDisk
    /\ IdlePBS
    /\ IdleSM
    /\ IdleScan
    /\ IdleVariants
    /\ IdlePortfolio
    /\ IdleDetectors
    /\ bp_state = "start"
    /\ bp_domains = <<>>
    /\ bp_i = 0
    /\ bp_chunk = <<>>
    /\ bp_results = <<>>
    /\ bp_k = 0
    /\ bp_completed = {}
    /\ bp_failed = EmptyDict
    /\ bp_after = "none"
    /\ checkpoint_interval \in 1..MaxInterval
    /\ should_stop = FALSE
    /\ unsaved = 0

NextBP ==
    \/ process_batch
    \/ bp_loop
    \/ bp_scan_multiple
    \/ bp_record
    \/ bp_write
    \/ bp_save_checkpoint_open
    \/ bp_save_checkpoint_write
    \/ bp_save_checkpoint_replace
    \/ bp_sleep
    \/ _handle_shutdown
    \/ bp_kill

SpecBP == InitBP /\ [][NextBP]_vars

\* =============================================== LocalBatchManager.scan_batch
\* "remaining" of _save_progress
lbm_remaining(domains, completed, failed) ==
    FilterOut(domains, completed \cup DOMAIN failed)

\* scan_batch up to the loop, resume=True: _load_progress reads the progress
\* file when it exists (a parse error propagates); an empty "remaining" means
\* the whole input list.
scan_batch ==
    /\ program = "manager"
    /\ bp_state \in {"start", "returned", "killed", "raised"}
    /\ runs < MaxRuns
    /\ runs = 0 \/ checkpoint_file.state # "absent"
    /\ runs' = runs + 1
    /\ should_stop' = FALSE
    /\ unsaved' = 0
    /\ bp_i' = 0
    /\ bp_chunk' = <<>>
    /\ bp_results' = <<>>
    /\ bp_k' = 0
    /\ bp_after' = "none"
    /\ IF checkpoint_file.state = "torn"
       THEN /\ bp_state' = "raised"
            /\ bp_completed' = {}
            /\ bp_failed' = EmptyDict
            /\ bp_domains' = <<>>
       ELSE IF checkpoint_file.state = "ok"
       THEN /\ bp_state' = "loop"
            /\ bp_completed' = checkpoint_file.completed
            /\ bp_failed' = checkpoint_file.failed
            /\ bp_domains' = IF checkpoint_file.remaining # <<>>
                             THEN checkpoint_file.remaining
                             ELSE all_domains
       ELSE /\ bp_state' = "loop"
            /\ bp_completed' = {}
            /\ bp_failed' = EmptyDict
            /\ bp_domains' = all_domains
    /\ UNCHANGED <<pbsVars, smVars, program, all_domains, max_concurrent, failed_scans, retryVars, variantVars, portfolioVars, detectorVars, diskVars,
                   checkpoint_interval>>

\* The head of `for i in range(0, len(domains_to_scan), chunk_size)`: the end
\* of the loop or the stop flag (both reach the `finally`), or the next chunk.
lbm_loop ==
    /\ program = "manager"
    /\ bp_state = "loop"
    /\ IF bp_i >= Len(bp_domains) \/ should_stop
       THEN /\ bp_state' = "ckpt_open"
            /\ bp_after' = "return"
            /\ UNCHANGED bp_chunk
       ELSE /\ bp_chunk' = SubSeq(bp_domains, bp_i + 1, Min(bp_i + ChunkSize, Len(bp_domains)))
            /\ bp_state' = "scan"
            /\ UNCHANGED bp_after
    /\ UNCHANGED <<pbsVars, smVars, commonVars, retryVars, variantVars, portfolioVars, detectorVars, diskVars, bp_domains, bp_i, bp_results, bp_k,
                   bp_completed, bp_failed, checkpoint_interval, should_stop, unsaved>>

\* await scanner.scan_multiple(chunk) returns, or raises: only
\* KeyboardInterrupt is caught, so the `finally` saves and the error leaves.
lbm_scan_multiple ==
    /\ program = "manager"
    /\ bp_state = "scan"
    /\ \/ /\ bp_results' \in ScanMultipleOutcomes(bp_chunk)
          /\ bp_k' = 1
          /\ bp_state' = "record"
          /\ UNCHANGED bp_after
       \/ /\ bp_state' = "ckpt_open"
          /\ bp_after' = "raise"
          /\ UNCHANGED <<bp_results, bp_k>>
    /\ UNCHANGED <<pbsVars, smVars, commonVars, retryVars, variantVars, portfolioVars, detectorVars, diskVars, bp_domains, bp_i, bp_chunk,
                   bp_completed, bp_failed, checkpoint_interval, should_stop, unsaved>>

\* `if (len(self.completed) + len(self.failed)) % self.checkpoint_every == 0`
lbm_checkpoint_due(completed, failed, every) ==
    (Cardinality(completed) + Cardinality(DOMAIN failed)) % every = 0

\* The next result of the chunk; after the last one, the cadence test.
lbm_next_result(completed, failed) ==
    IF bp_k < Len(bp_results)
    THEN /\ bp_k' = bp_k + 1
         /\ bp_state' = "record"
         /\ UNCHANGED bp_after
    ELSE /\ bp_k' = 0
         /\ IF lbm_checkpoint_due(completed, failed, checkpoint_interval)
            THEN bp_state' = "ckpt_open" /\ bp_after' = "sleep"
            ELSE bp_state' = "sleep" /\ UNCHANGED bp_after

\* The ledger update for one result (lines 166-174): a success is added to
\* completed and its file is written next; a failure is recorded, no file.
lbm_record ==
    /\ program = "manager"
    /\ bp_state = "record"
    /\ LET result == bp_results[bp_k]
       IN IF result.success
          THEN /\ bp_completed' = bp_completed \cup {result.domain}
               /\ bp_state' = "write"
               /\ UNCHANGED <<bp_failed, bp_k, bp_after>>
          ELSE /\ bp_failed' = Put(bp_failed, result.domain, "error")
               /\ lbm_next_result(bp_completed, bp_failed')
               /\ UNCHANGED bp_completed
    /\ unsaved' = unsaved + 1
    /\ UNCHANGED <<pbsVars, smVars, commonVars, retryVars, variantVars, portfolioVars, detectorVars, diskVars, bp_domains, bp_i, bp_chunk,
                   bp_results, checkpoint_interval, should_stop>>

\* The result file of a successful result (lines 170-172), the write taken to
\* succeed.
lbm_write ==
    /\ program = "manager"
    /\ bp_state = "write"
    /\ result_files' = Put(result_files, bp_results[bp_k].domain, TRUE)
    /\ lbm_next_result(bp_completed, bp_failed)
    /\ UNCHANGED <<pbsVars, smVars, commonVars, retryVars, variantVars, portfolioVars, detectorVars, checkpoint_file, temp_file, bp_domains, bp_i,
                   bp_chunk, bp_results, bp_completed, bp_failed, checkpoint_interval,
                   should_stop, unsaved>>

\* _save_progress, `open(temp_file, "w")`.  An exception of the cadence call
\* reaches the `finally`, which saves again; one of the final call leaves
\* scan_batch.
lbm_save_progress_open ==
    /\ program = "manager"
    /\ bp_state = "ckpt_open"
    /\ \/ /\ Truncate(with_suffix(CheckpointPath))
          /\ bp_state' = "ckpt_write"
          /\ UNCHANGED bp_after
       \/ /\ bp_after = "sleep"
          /\ bp_after' = "raise"
          /\ UNCHANGED <<checkpoint_file, temp_file, bp_state>>
       \/ /\ bp_after # "sleep"
          /\ bp_state' = "raised"
          /\ UNCHANGED <<checkpoint_file, temp_file, bp_after>>
    /\ UNCHANGED <<pbsVars, smVars, commonVars, retryVars, variantVars, portfolioVars, detectorVars, result_files, bp_domains, bp_i, bp_chunk,
                   bp_results, bp_k, bp_completed, bp_failed, checkpoint_interval,
                   should_stop, unsaved>>

\* _save_progress, `json.dump(progress_data, f)` and the close.
lbm_save_progress_write ==
    /\ program = "manager"
    /\ bp_state = "ckpt_write"
    /\ Dump(with_suffix(CheckpointPath),
            Document(bp_completed, bp_failed, lbm_remaining(all_domains, bp_completed, bp_failed)))
    /\ bp_state' = "ckpt_replace"
    /\ UNCHANGED <<pbsVars, smVars, commonVars, retryVars, variantVars, portfolioVars, detectorVars, result_files, bp_domains, bp_i, bp_chunk,
                   bp_results, bp_k, bp_completed, bp_failed, bp_after, checkpoint_interval,
                   should_stop, unsaved>>

\* _save_progress, `temp_file.replace(progress_file)`, and what follows the
\* call: the pause between chunks, the summary and return, or the pending
\* exception.
lbm_save_progress_replace ==
    /\ program = "manager"
    /\ bp_state = "ckpt_replace"
    /\ Replace(with_suffix(CheckpointPath), CheckpointPath)
    /\ unsaved' = 0
    /\ bp_state' = IF bp_after = "sleep" THEN "sleep"
                   ELSE IF bp_after = "raise" THEN "raised" ELSE "returned"
    /\ bp_after' = "none"
    /\ UNCHANGED <<pbsVars, smVars, commonVars, retryVars, variantVars, portfolioVars, detectorVars, result_files, bp_domains, bp_i, bp_chunk,
                   bp_results, bp_k, bp_completed, bp_failed, checkpoint_interval,
                   should_stop>>

\* await asyncio.sleep(0.5), then the next i.
lbm_sleep ==
    /\ program = "manager"
    /\ bp_state = "sleep"
    /\ bp_i' = bp_i + ChunkSize
    /\ bp_state' = "loop"
    /\ UNCHANGED <<pbsVars, smVars, commonVars, retryVars, variantVars, portfolioVars, detectorVars, diskVars, bp_domains, bp_chunk, bp_results,
                   bp_k, bp_completed, bp_failed, bp_after, checkpoint_interval, should_stop,
                   unsaved>>

InitLBM ==
    /\ program = "manager"
    /\ all_domains \in BatchLists
    /\ max_concurrent \in {1}
    /\ runs = 0
    /\ failed_scans = -1
    /\ EmptyDisk
    /\ IdlePBS
    /\ IdleSM
    /\ IdleScan
    /\ IdleVariants
    /\ IdlePortfolio
    /\ IdleDetectors
    /\ bp_state = "start"
    /\ bp_domains = <<>>
    /\ bp_i = 0
    /\ bp_chunk = <<>>
    /\ bp_results = <<>>
    /\ bp_k = 0
    /\ bp_completed = {}
    /\ bp_failed = EmptyDict
    /\ bp_after = "none"
    /\ checkpoint_interval \in 1..MaxInterval
    /\ should_stop = FALSE
    /\ unsaved = 0

NextLBM ==
    \/ scan_batch
    \/ lbm_loop
    \/ lbm_scan_multiple
    \/ lbm_record
    \/ lbm_write
    \/ lbm_save_progress_open
    \/ lbm_save_progress_write
    \/ lbm_save_progress_replace
    \/ lbm_sleep
    \/ _handle_shutdown
    \/ bp_kill

SpecLBM == InitLBM /\ [][NextLBM]_vars

\* BatchProcessor.process_batch together with the inside of the scan_multiple
\* call it awaits, each open to the shutdown signal.
NextAwaited == NextSM \/ _handle_shutdown
InitShutdown == InitBP \/ InitSM
NextShutdown == NextBP \/ NextAwaited
SpecShutdown == InitShutdown /\ [][NextShutdown]_vars

\* Both chunked drivers: a BatchProcessor run or a LocalBatchManager run.
InitChunked == InitBP \/ InitLBM
NextChunked == NextBP \/ NextLBM
SpecChunked == InitChunked /\ [][NextChunked]_vars

\* ======================= PixelScanner.scan_domain, exponential_backoff_retry
\* What a call of _do_scan raises: _scan_domain_impl re-raises whatever went
\* wrong (the text of the exception).
Errors == {"timeout", "timed out", "network", "connection", "crash"}

\* should_retry of scan_domain, passed as retry_condition.  (Its variant
\* retries every error.)
retry_condition_Any(e) == TRUE
retry_condition(e) == e \in {"timeout", "timed out", "network", "connection"}

\* range(max_retries + 1)
Attempts(m) == 0..m

initial_delay == 1
exponential_base == 2
max_delay == 60

RECURSIVE Pow(_, _)
Pow(b, n) == IF n = 0 THEN 1 ELSE b * Pow(b, n - 1)

\* What scan_domain passes: the defaults of RetryConfig.
RetryConfig ==
    [initial_delay |-> initial_delay, max_delay |-> max_delay,
     exponential_base |-> exponential_base, jitter |-> TRUE]

\* min(initial_delay * (exponential_base ** attempt), max_delay), in seconds.
\* (Its variant leaves the min out.)
Delay_NoCap(args, n) == args.initial_delay * Pow(args.exponential_base, n)
Delay(args, n) == Min(args.initial_delay * Pow(args.exponential_base, n), args.max_delay)

\* 0.5 + random.random(), in tenths: random() is in [0, 1).
JitterFactors == 5..14

\* delay * (0.5 + random.random()) when jitter is set, else delay; the result
\* in tenths of a second.
Jittered(seconds, jitter, factor) == IF jitter THEN seconds * factor ELSE seconds * 10

\* The ScanResult of the `except Exception` of scan_domain, and of the early
\* returns.  (Its variant reports a success.)
FailureResult_Ok(e) == [success |-> TRUE, error_message |-> "none"]
FailureResult(e) == [success |-> FALSE, error_message |-> e]

\* scan_domain up to the call of exponential_backoff_retry: the domain is
\* rejected (invalid format, ValueError of the normalizer, DNS lookup failed)
\* with a failure result, or the retry loop starts.
scan_domain_enter ==
    /\ program = "scan_domain"
    /\ sd_state = "start"
    /\ \E accepted \in BOOLEAN :
         IF accepted
         THEN /\ sd_state' = "call"
              /\ attempt' = 0
              /\ last_exception' = "none"
              /\ UNCHANGED sd_result
         ELSE /\ sd_state' = "returned"
              /\ sd_result' = FailureResult("rejected")
              /\ UNCHANGED <<attempt, last_exception>>
    /\ UNCHANGED <<commonVars, diskVars, pbsVars, smVars, bpVars, variantVars, portfolioVars, detectorVars,
                   rt_max_retries, rt_args, delay,
                   calls, navigated, raised>>

\* `await page.goto(...)` inside _scan_domain_impl: the page loads, or the
\* navigation times out or raises; `except Exception` logs a warning and the
\* scan goes on (scanner.py 208-211).
Navigations == {"loaded", "timeout", "network"}

\* One pass of the loop body: `return await func()`, or the except clause up
\* to the raise or the sleep.  With scan_domain, func is _scan_domain_impl: it
\* returns a ScanResult with success=True, or re-raises what a step other
\* than the navigation raised.
retry_attempt ==
    /\ program \in {"scan_domain", "retry"}
    /\ sd_state = "call"
    /\ calls' = calls + 1
    /\ IF program = "scan_domain"
       THEN navigated' \in Navigations
       ELSE UNCHANGED navigated
    /\ \/ /\ sd_state' = "returned"
          /\ sd_result' = [success |-> TRUE, error_message |-> "none"]
          /\ UNCHANGED <<last_exception, raised, delay>>
       \/ \E e \in Errors :
            /\ last_exception' = e
            /\ IF ~retry_condition(e) \/ attempt = rt_max_retries
               THEN /\ sd_state' = "except"
                    /\ raised' = e
                    /\ UNCHANGED delay
               ELSE /\ sd_state' = "sleep"
                    /\ \E factor \in JitterFactors :
                         delay' = Jittered(Delay(rt_args, attempt), rt_args.jitter, factor)
                    /\ UNCHANGED raised
            /\ UNCHANGED sd_result
    /\ UNCHANGED <<commonVars, diskVars, pbsVars, smVars, bpVars, variantVars, portfolioVars, detectorVars,
                   rt_max_retries, rt_args, attempt>>

\* await asyncio.sleep(delay), then the next attempt of the for loop; when
\* the range is used up the function raises last_exception (lines 83-84).
retry_sleep ==
    /\ program \in {"scan_domain", "retry"}
    /\ sd_state = "sleep"
    /\ attempt' = attempt + 1
    /\ IF attempt + 1 \in Attempts(rt_max_retries)
       THEN /\ sd_state' = "call"
            /\ UNCHANGED raised
       ELSE /\ sd_state' = "except"
            /\ raised' = last_exception
    /\ UNCHANGED <<commonVars, diskVars, pbsVars, smVars, bpVars, variantVars, portfolioVars, detectorVars,
                   rt_max_retries, rt_args,
                   last_exception, delay, calls, navigated, sd_result>>

\* `except Exception as e` of scan_domain: the error result is returned.
scan_domain_except ==
    /\ program = "scan_domain"
    /\ sd_state = "except"
    /\ sd_state' = "returned"
    /\ sd_result' = FailureResult(raised)
    /\ UNCHANGED <<commonVars, diskVars, pbsVars, smVars, bpVars, variantVars, portfolioVars, detectorVars,
                   rt_max_retries, rt_args,
                   attempt, last_exception, delay, calls, navigated, raised>>

InitBackoff ==
    /\ program = "scan_domain"
    /\ all_domains \in {<<d>> : d \in RawInputs}
    /\ max_concurrent = 1
    /\ runs = 0
    /\ failed_scans = -1
    /\ EmptyDisk
    /\ IdlePBS
    /\ IdleSM
    /\ IdleBP
    /\ sd_state = "start"
    /\ rt_max_retries \in 0..MaxRetries
    /\ rt_args = RetryConfig
    /\ attempt = 0
    /\ last_exception = "none"
    /\ delay = 0
    /\ calls = 0
    /\ navigated = "none"
    /\ raised = "none"
    /\ sd_result = NoResult
    /\ IdleVariants
    /\ IdlePortfolio
    /\ IdleDetectors

NextBackoff ==
    \/ scan_domain_enter
    \/ retry_attempt
    \/ retry_sleep
    \/ scan_domain_except

SpecBackoff == InitBackoff /\ [][NextBackoff]_vars

\* exponential_backoff_retry called on its own, with the predicate of
\* scan_domain: the exception it raises reaches the caller.
retry_raise ==
    /\ program = "retry"
    /\ sd_state = "except"
    /\ sd_state' = "raised"
    /\ UNCHANGED <<commonVars, diskVars, pbsVars, smVars, bpVars, variantVars, portfolioVars, detectorVars,
                   rt_max_retries, rt_args,
                   attempt, last_exception, delay, calls, navigated, raised, sd_result>>

\* The keyword arguments of the call, in whole seconds.
RetryArgs ==
    [initial_delay : 0..MaxDelay, max_delay : 0..MaxDelay, exponential_base : 1..MaxBase,
     jitter : BOOLEAN]

InitRetryCall ==
    /\ program = "retry"
    /\ all_domains = <<>>
    /\ max_concurrent = 1
    /\ runs = 0
    /\ failed_scans = -1
    /\ EmptyDisk
    /\ IdlePBS
    /\ IdleSM
    /\ IdleBP
    /\ sd_state = "call"
    /\ rt_max_retries \in 0..MaxRetries
    /\ rt_args \in RetryArgs
    /\ attempt = 0
    /\ last_exception = "none"
    /\ delay = 0
    /\ calls = 0
    /\ navigated = "none"
    /\ raised = "none"
    /\ sd_result = NoResult
    /\ IdleVariants
    /\ IdlePortfolio
    /\ IdleDetectors

NextRetryCall ==
    \/ retry_attempt
    \/ retry_sleep
    \/ retry_raise

SpecRetryCall == InitRetryCall /\ [][NextRetryCall]_vars

\* ========= ProductionBatchScanner.scan_with_redirect, ProductionScanner.scan_domain
\* A domain string is a list of its pieces: an optional protocol, an optional
\* "www." prefix, the registered name, an optional trailing slash.
Protocols == {"http://", "https://"}
Names == {"a.com", "A.COM"}
DomainLines ==
    {p \o w \o <<n>> \o t :
        p \in {<<>>, <<"http://">>, <<"https://">>},
        w \in {<<>>, <<"www.">>, <<"WWW.">>},
        n \in Names,
        t \in {<<>>, <<"/">>}}

\* str.lower() of one piece.
lower(piece) ==
    CASE piece = "A.COM" -> "a.com"
      [] piece = "WWW." -> "www."
      [] piece = "N/A" -> "n/a"
      [] OTHER -> piece

\* domain.strip().lower()
Lowered(domain) == [k \in 1..Len(domain) |-> lower(domain[k])]

\* domain.split("://")[1] when the domain holds a protocol.
WithoutProtocol(domain) ==
    IF domain # <<>> /\ Head(domain) \in Protocols THEN Tail(domain) ELSE domain

RECURSIVE rstrip(_)
\* domain.rstrip("/")
rstrip(domain) ==
    IF domain # <<>> /\ domain[Len(domain)] = "/"
    THEN rstrip(SubSeq(domain, 1, Len(domain) - 1))
    ELSE domain

\* The order of normalize_domain with the bare host tried first whatever the
\* input was.
normalize_domain_BareFirst(domain) ==
    LET d == rstrip(WithoutProtocol(Lowered(domain)))
        base == IF d # <<>> /\ Head(d) = "www." THEN Tail(d) ELSE d
    IN  << <<"https://">> \o base,
           <<"https://", "www.">> \o base,
           <<"http://">> \o base,
           <<"http://", "www.">> \o base >>

\* ProductionBatchScanner.normalize_domain
normalize_domain(domain) ==
    LET d == rstrip(WithoutProtocol(Lowered(domain)))
    IN  IF d # <<>> /\ Head(d) = "www."
        THEN << <<"https://">> \o d,
                <<"https://">> \o Tail(d),
                <<"http://">> \o d,
                <<"http://">> \o Tail(d) >>
        ELSE << <<"https://">> \o d,
                <<"https://", "www.">> \o d,
                <<"http://">> \o d,
                <<"http://", "www.">> \o d >>

\* ProductionScanner.generate_url_variations
generate_url_variations(domain, try) ==
    IF ~try
    THEN << <<"https://">> \o domain >>
    ELSE << <<"https://">> \o domain,
            <<"https://", "www.">> \o domain,
            <<"http://">> \o domain,
            <<"http://", "www.">> \o domain >>

\* What `await page.goto(...)` does: a response the scanner accepts, a
\* response it does not accept (or None), a timeout, another exception.
GotoOutcomes == {"ok", "bad_response", "timeout", "exception"}

\* The head of both functions: the variations are computed, last_error = None.
scan_begin ==
    /\ program \in {"scan_with_redirect", "ps_scan_domain"}
    /\ vr_state = "start"
    /\ variations' = IF program = "scan_with_redirect"
                     THEN normalize_domain(vr_domain)
                     ELSE generate_url_variations(vr_domain, try_variations)
    /\ vr_i' = 1
    /\ last_error' = NoError
    /\ vr_state' = "open"
    /\ UNCHANGED <<vr_domain, try_variations, contexts, navigations, vr_result>>
    /\ UNCHANGED <<commonVars, diskVars, pbsVars, smVars, bpVars, retryVars, portfolioVars, detectorVars>>

\* `for url_variant in variations: try: context = await browser.new_context(...)`
\* and `page = await context.new_page()`; a failure of either is caught by
\* `except Exception as e: last_error = str(e)` and the loop goes on.
new_context ==
    /\ program \in {"scan_with_redirect", "ps_scan_domain"}
    /\ vr_state = "open"
    /\ vr_i <= Len(variations)
    /\ \E created \in BOOLEAN :
          IF created
          THEN /\ contexts' = contexts \cup {vr_i}
               /\ vr_state' = "goto"
               /\ UNCHANGED <<vr_i, last_error>>
          ELSE /\ last_error' = [variant |-> vr_i, kind |-> "exception"]
               /\ vr_i' = vr_i + 1
               /\ UNCHANGED <<contexts, vr_state>>
    /\ UNCHANGED <<vr_domain, try_variations, variations, navigations, vr_result>>
    /\ UNCHANGED <<commonVars, diskVars, pbsVars, smVars, bpVars, retryVars, portfolioVars, detectorVars>>

\* `response = await page.goto(url_variant, ...)` and what follows it in the
\* try block, up to the next variant or the return.
\*   accepted response: context.close(), then `return ScanResult(...)`; in
\*     ProductionBatchScanner that constructor call leaves out the required
\*     scan_metadata and raises, inside the try block, so `except Exception`
\*     records it and the loop goes on;
\*   response not accepted: context.close(), last_error is not assigned;
\*   timeout, exception: last_error is assigned, the context is not closed.
goto ==
    /\ program \in {"scan_with_redirect", "ps_scan_domain"}
    /\ vr_state = "goto"
    /\ \E outcome \in GotoOutcomes :
          /\ navigations' = Append(navigations, [variant |-> vr_i, outcome |-> outcome])
          /\ CASE outcome = "ok" /\ program = "ps_scan_domain" ->
                    /\ contexts' = contexts \ {vr_i}
                    /\ vr_result' = [success |-> TRUE, error_message |-> NoError,
                                     url_scanned |-> variations[vr_i]]
                    /\ vr_state' = "returned"
                    /\ UNCHANGED <<vr_i, last_error>>
               [] outcome = "ok" /\ program = "scan_with_redirect" ->
                    /\ contexts' = contexts \ {vr_i}
                    /\ last_error' = [variant |-> vr_i, kind |-> "validation"]
                    /\ vr_i' = vr_i + 1
                    /\ vr_state' = "open"
                    /\ UNCHANGED vr_result
               [] outcome = "bad_response" ->
                    /\ contexts' = contexts \ {vr_i}
                    /\ vr_i' = vr_i + 1
                    /\ vr_state' = "open"
                    /\ UNCHANGED <<last_error, vr_result>>
               [] outcome \in {"timeout", "exception"} ->
                    /\ last_error' = [variant |-> vr_i, kind |-> outcome]
                    /\ vr_i' = vr_i + 1
                    /\ vr_state' = "open"
                    /\ UNCHANGED <<contexts, vr_result>>
    /\ UNCHANGED <<vr_domain, try_variations, variations>>
    /\ UNCHANGED <<commonVars, diskVars, pbsVars, smVars, bpVars, retryVars, portfolioVars, detectorVars>>

\* After the loop: `return ScanResult(success=False, error_message=last_error)`.
\* ProductionBatchScanner leaves out the required scan_metadata here too, so
\* the call raises to process_domain.
all_variations_failed ==
    /\ program \in {"scan_with_redirect", "ps_scan_domain"}
    /\ vr_state = "open"
    /\ vr_i > Len(variations)
    /\ IF program = "ps_scan_domain"
       THEN /\ vr_result' = [success |-> FALSE, error_message |-> last_error,
                             url_scanned |-> <<>>]
            /\ vr_state' = "returned"
       ELSE /\ vr_state' = "raised"
            /\ UNCHANGED vr_result
    /\ UNCHANGED <<vr_domain, try_variations, variations, vr_i, last_error, contexts,
                   navigations>>
    /\ UNCHANGED <<commonVars, diskVars, pbsVars, smVars, bpVars, retryVars, portfolioVars, detectorVars>>

\* ProductionScanner.scan_domain is called with a domain validate_domain
\* cleaned (a bare registered name); ProductionBatchScanner.scan_with_redirect
\* with a stripped line of the input file.
InitVariants ==
    /\ \/ /\ program = "ps_scan_domain"
          /\ vr_domain = <<"a.com">>
          /\ try_variations \in BOOLEAN
       \/ /\ program = "scan_with_redirect"
          /\ vr_domain \in DomainLines
          /\ try_variations = TRUE
    /\ all_domains = <<>>
    /\ max_concurrent = 1
    /\ runs = 0
    /\ failed_scans = -1
    /\ EmptyDisk
    /\ IdlePBS
    /\ IdleSM
    /\ IdleBP
    /\ IdleScan
    /\ vr_state = "start"
    /\ variations = <<>>
    /\ vr_i = 0
    /\ last_error = NoError
    /\ contexts = {}
    /\ navigations = <<>>
    /\ vr_result = NoScan
    /\ IdlePortfolio
    /\ IdleDetectors

NextVariants ==
    \/ scan_begin
    \/ new_context
    \/ goto
    \/ all_variations_failed

SpecVariants == InitVariants /\ [][NextVariants]_vars

\* ============================ production_scanner.ProductionScanner, portfolio mode
MaxRows == 3      \* rows of the input CSV

\* The values of the url column, as lists of pieces.
Urls ==
    { <<"a.com">>,
      <<"https://", "www.", "A.COM", "/">>,
      <<"b.com">>,
      <<"N/A">>,
      <<"user@", "a.com">>,
      <<"555-1234">>,
      <<"not-a-domain">> }

InputRows == [custom_id : Ids, url : Urls]
InputFiles == UNION {[1..n -> InputRows] : n \in 1..MaxRows}

\* ['none', 'null', 'undefined', 'n/a', 'na', '-', '', '0']
Garbage == {<<"none">>, <<"null">>, <<"undefined">>, <<"n/a">>, <<"na">>, <<"-">>, <<>>, <<"0">>}

\* '@' in url
HasAt(url) == \E k \in 1..Len(url) : url[k] = "user@"

\* re.match(r'^[\d\s\-\(\)\+]+$', url)
PhoneShaped(url) == url # <<>> /\ \A k \in 1..Len(url) : url[k] \in {"555-1234", "0", "-"}

\* re.sub(r'^www\.', '', url)
WithoutWww(url) == IF url # <<>> /\ Head(url) = "www." THEN Tail(url) ELSE url

\* tldextract: the public suffix of the host, "" when it has none.
Suffix(url) == IF Len(url) = 1 /\ url[1] \in {"a.com", "b.com"} THEN "com" ELSE ""

\* ProductionScanner.validate_domain
validate_domain(url) ==
    IF url = <<>> THEN [is_valid |-> FALSE, clean_domain |-> "", error |-> "Empty input"]
    ELSE IF Lowered(url) \in Garbage
    THEN [is_valid |-> FALSE, clean_domain |-> "", error |-> "Invalid"]
    ELSE IF HasAt(url)
    THEN [is_valid |-> FALSE, clean_domain |-> "", error |-> "Email address"]
    ELSE IF PhoneShaped(url)
    THEN [is_valid |-> FALSE, clean_domain |-> "", error |-> "Phone number"]
    ELSE LET cleaned == rstrip(WithoutWww(WithoutProtocol(Lowered(url))))
         IN  IF Suffix(cleaned) = ""
             THEN [is_valid |-> FALSE, clean_domain |-> "", error |-> "No valid TLD"]
             ELSE [is_valid |-> TRUE, clean_domain |-> cleaned[1], error |-> ""]

\* One iteration of the `for row in reader` loop of _preprocess_csv.
\* (domain_to_ids and the counters of self.stats are written to the mapping
\* file and the console only.)
preprocess_csv_row ==
    /\ program = "portfolio"
    /\ pf_state = "preprocess"
    /\ pf_i < Len(input_rows)
    /\ LET row == input_rows[pf_i + 1]
           v == validate_domain(row.url)
           seen_domains == {pf_domains_to_scan[k] : k \in 1..Len(pf_domains_to_scan)}
       IN  /\ id_to_domain' =
                 [id_to_domain EXCEPT ![row.custom_id] =
                     IF v.is_valid
                     THEN [valid |-> TRUE, domain |-> v.clean_domain, error |-> ""]
                     ELSE [valid |-> FALSE, domain |-> "", error |-> v.error]]
           /\ pf_domains_to_scan' =
                 IF v.is_valid /\ v.clean_domain \notin seen_domains
                 THEN Append(pf_domains_to_scan, v.clean_domain)
                 ELSE pf_domains_to_scan
    /\ pf_i' = pf_i + 1
    /\ UNCHANGED <<pf_state, input_rows, pf_remaining, scanned, scan_results, output>>
    /\ UNCHANGED <<commonVars, diskVars, pbsVars, smVars, bpVars, retryVars, variantVars,
                   detectorVars>>

\* run_scanner on a fresh output directory: one process_domain task per
\* entry of domains_to_scan.
pf_run_scanner ==
    /\ program = "portfolio"
    /\ pf_state = "preprocess"
    /\ pf_i = Len(input_rows)
    /\ pf_remaining' = 1..Len(pf_domains_to_scan)
    /\ pf_state' = "scan"
    /\ UNCHANGED <<input_rows, pf_i, id_to_domain, pf_domains_to_scan, scanned, scan_results,
                   output>>
    /\ UNCHANGED <<commonVars, diskVars, pbsVars, smVars, bpVars, retryVars, variantVars,
                   detectorVars>>

\* The process_domain task of one entry: scan_domain, then the result file.
\* A task whose scan_domain or file write raises ends without a result file
\* (gather(return_exceptions=True)).
pf_process_domain(k) ==
    /\ program = "portfolio"
    /\ pf_state = "scan"
    /\ k \in pf_remaining
    /\ LET domain == pf_domains_to_scan[k]
       IN  /\ scanned' = Append(scanned, domain)
           /\ \E outcome \in {"success", "failed", "raise"} :
                 scan_results' =
                     IF outcome = "raise"
                     THEN scan_results
                     ELSE [d \in DOMAIN scan_results \cup {domain} |->
                              IF d = domain THEN outcome ELSE scan_results[d]]
    /\ pf_remaining' = pf_remaining \ {k}
    /\ UNCHANGED <<pf_state, input_rows, pf_i, id_to_domain, pf_domains_to_scan, output>>
    /\ UNCHANGED <<commonVars, diskVars, pbsVars, smVars, bpVars, retryVars, variantVars,
                   detectorVars>>

\* generate_output, once every task has ended.
generate_output ==
    /\ program = "portfolio"
    /\ pf_state = "scan"
    /\ pf_remaining = {}
    /\ pf_state' = "output"
    /\ pf_i' = 0
    /\ UNCHANGED <<input_rows, id_to_domain, pf_domains_to_scan, pf_remaining, scanned,
                   scan_results, output>>
    /\ UNCHANGED <<commonVars, diskVars, pbsVars, smVars, bpVars, retryVars, variantVars,
                   detectorVars>>

\* One iteration of `for row in self.original_data` in
\* _generate_portfolio_output.
generate_portfolio_output_row ==
    /\ program = "portfolio"
    /\ pf_state = "output"
    /\ pf_i < Len(input_rows)
    /\ LET row == input_rows[pf_i + 1]
           domain_info == id_to_domain[row.custom_id]
       IN  output' = Append(output,
              IF ~domain_info.valid
              THEN [custom_id |-> row.custom_id, url |-> row.url, domain |-> "",
                    scan_status |-> "rejected"]
              ELSE [custom_id |-> row.custom_id, url |-> row.url,
                    domain |-> domain_info.domain,
                    scan_status |-> IF domain_info.domain \in DOMAIN scan_results
                                    THEN scan_results[domain_info.domain]
                                    ELSE "not_scanned"])
    /\ pf_i' = pf_i + 1
    /\ pf_state' = IF pf_i + 1 = Len(input_rows) THEN "done" ELSE "output"
    /\ UNCHANGED <<input_rows, id_to_domain, pf_domains_to_scan, pf_remaining, scanned,
                   scan_results>>
    /\ UNCHANGED <<commonVars, diskVars, pbsVars, smVars, bpVars, retryVars, variantVars,
                   detectorVars>>

InitPortfolio ==
    /\ program = "portfolio"
    /\ all_domains = <<>>
    /\ max_concurrent = 1
    /\ runs = 0
    /\ failed_scans = -1
    /\ EmptyDisk
    /\ IdlePBS
    /\ IdleSM
    /\ IdleBP
    /\ IdleScan
    /\ IdleVariants
    /\ pf_state = "preprocess"
    /\ input_rows \in InputFiles
    /\ pf_i = 0
    /\ id_to_domain = [c \in Ids |-> NoEntry]
    /\ pf_domains_to_scan = <<>>
    /\ pf_remaining = {}
    /\ scanned = <<>>
    /\ scan_results = [d \in {} |-> "none"]
    /\ output = <<>>
    /\ IdleDetectors

NextPortfolio ==
    \/ preprocess_csv_row
    \/ pf_run_scanner
    \/ \E k \in 1..MaxRows : pf_process_domain(k)
    \/ generate_output
    \/ generate_portfolio_output_row

SpecPortfolio == InitPortfolio /\ [][NextPortfolio]_vars

\* ============== detectors.BasePixelDetector, detection phase of _scan_domain_impl
MaxEvidence == 1      \* entries one accumulator may hold
MaxRequests == 1      \* requests one page issues
MaxAttempts == 1      \* retries of one scan_domain call that are explored

\* DETECTOR_REGISTRY after register_all_detectors(), two of its eight classes.
DETECTOR_REGISTRY == <<"meta_pixel", "google_analytics">>
Scans == {1, 2}

\* detector_class(): BasePixelDetector.__init__
BasePixelDetector(type) ==
    [pixel_type |-> type,
     network_requests |-> <<>>,
     cookies_found |-> {},
     script_tags |-> <<>>,
     global_variables |-> <<>>,
     dom_elements |-> <<>>,
     meta_tags |-> <<>>,
     pixel_ids |-> {}]

\* get_all_detectors(): one new instance per registered class.
get_all_detectors ==
    [k \in 1..Len(DETECTOR_REGISTRY) |-> BasePixelDetector(DETECTOR_REGISTRY[k])]

\* A reset that leaves the pixel ids in place.
reset_KeepIds(d) ==
    [d EXCEPT !.network_requests = <<>>, !.cookies_found = {}, !.script_tags = <<>>,
              !.global_variables = <<>>, !.dom_elements = <<>>, !.meta_tags = <<>>]

\* BasePixelDetector.reset
reset(d) ==
    [d EXCEPT !.network_requests = <<>>, !.cookies_found = {}, !.script_tags = <<>>,
              !.global_variables = <<>>, !.dom_elements = <<>>, !.meta_tags = <<>>,
              !.pixel_ids = {}]

\* BasePixelDetector.check_request for a request whose url holds one of the
\* tracking domains; pixel_id is what extract_pixel_id returns.
check_request(d, pixel_id) ==
    [d EXCEPT !.network_requests = Append(@, "url"),
              !.pixel_ids = IF pixel_id = "none" THEN @ ELSE @ \cup {pixel_id}]

\* BasePixelDetector.check_cookies given the tracker's cookies the page has.
check_cookies(d, cookies) == [d EXCEPT !.cookies_found = @ \cup cookies]

\* What one check_dom call can find on the page.
DomFindings ==
    [script : BOOLEAN, pixel_id : {"none", "123456"}, global : BOOLEAN, element : BOOLEAN,
     meta : BOOLEAN]

\* BasePixelDetector.check_dom: the script tags, then check_global_variables,
\* check_dom_elements and check_meta_tags of the subclass.
check_dom(d, found) ==
    [d EXCEPT !.script_tags = IF found.script THEN Append(@, "script") ELSE @,
              !.pixel_ids = IF found.script /\ found.pixel_id # "none"
                            THEN @ \cup {found.pixel_id} ELSE @,
              !.global_variables = IF found.global THEN Append(@, "fbq") ELSE @,
              !.dom_elements = IF found.element THEN Append(@, "noscript") ELSE @,
              !.meta_tags = IF found.meta THEN Append(@, "meta") ELSE @]

\* An is_detected that counts every accumulator as evidence.
is_detected_AnyEvidence(d) ==
    \/ d.network_requests # <<>>
    \/ d.script_tags # <<>>
    \/ d.cookies_found # {}
    \/ d.global_variables # <<>>
    \/ d.dom_elements # <<>>
    \/ d.meta_tags # <<>>
    \/ d.pixel_ids # {}

\* BasePixelDetector.is_detected
is_detected(d) ==
    \/ d.network_requests # <<>>
    \/ d.script_tags # <<>>
    \/ d.cookies_found # {}
    \/ d.global_variables # <<>>
    \/ d.dom_elements # <<>>

\* BasePixelDetector.build_detection: None, or the PixelDetection.
build_detection(d) ==
    IF ~is_detected(d)
    THEN None
    ELSE [type |-> d.pixel_type,
          evidence |-> [network_requests |-> d.network_requests,
                        script_tags |-> d.script_tags,
                        cookies_set |-> d.cookies_found,
                        global_variables |-> d.global_variables,
                        dom_elements |-> d.dom_elements,
                        meta_tags |-> d.meta_tags],
          pixel_id |-> IF d.pixel_ids # {} THEN CHOOSE id \in d.pixel_ids : TRUE ELSE "none"]

\* `self.pixel_ids.pop()` in build_detection.
popped(d) ==
    IF is_detected(d) /\ d.pixel_ids # {}
    THEN [d EXCEPT !.pixel_ids = @ \ {CHOOSE id \in d.pixel_ids : TRUE}]
    ELSE d

\* Room left in the list accumulators a call may append to.
HasRoom(d, found) ==
    /\ found.script => Len(d.script_tags) < MaxEvidence
    /\ found.global => Len(d.global_variables) < MaxEvidence
    /\ found.element => Len(d.dom_elements) < MaxEvidence
    /\ found.meta => Len(d.meta_tags) < MaxEvidence

\* ---- one detector object, its methods called in any order (as the tests do)
det_check_request ==
    /\ program = "detector"
    /\ Len(detectors[1][1].network_requests) < MaxEvidence
    /\ \E pixel_id \in {"none", "123456"} :
          detectors' = [detectors EXCEPT ![1][1] = check_request(@, pixel_id)]
    /\ scan_pc' = [scan_pc EXCEPT ![1] = "check_request"]
    /\ detection' = NotCalled
    /\ dt_i' = [dt_i EXCEPT ![1] = 0]
    /\ UNCHANGED <<total_requests, dt_attempt, pixels_detected>>
    /\ UNCHANGED <<commonVars, diskVars, pbsVars, smVars, bpVars, retryVars, variantVars,
                   portfolioVars>>

det_check_cookies ==
    /\ program = "detector"
    /\ \E cookies \in SUBSET {"_fbp"} :
          detectors' = [detectors EXCEPT ![1][1] = check_cookies(@, cookies)]
    /\ scan_pc' = [scan_pc EXCEPT ![1] = "check_cookies"]
    /\ detection' = NotCalled
    /\ dt_i' = [dt_i EXCEPT ![1] = 0]
    /\ UNCHANGED <<total_requests, dt_attempt, pixels_detected>>
    /\ UNCHANGED <<commonVars, diskVars, pbsVars, smVars, bpVars, retryVars, variantVars,
                   portfolioVars>>

det_check_dom ==
    /\ program = "detector"
    /\ \E found \in DomFindings :
          /\ HasRoom(detectors[1][1], found)
          /\ detectors' = [detectors EXCEPT ![1][1] = check_dom(@, found)]
    /\ scan_pc' = [scan_pc EXCEPT ![1] = "check_dom"]
    /\ detection' = NotCalled
    /\ dt_i' = [dt_i EXCEPT ![1] = 0]
    /\ UNCHANGED <<total_requests, dt_attempt, pixels_detected>>
    /\ UNCHANGED <<commonVars, diskVars, pbsVars, smVars, bpVars, retryVars, variantVars,
                   portfolioVars>>

det_reset ==
    /\ program = "detector"
    /\ detectors' = [detectors EXCEPT ![1][1] = reset(@)]
    /\ scan_pc' = [scan_pc EXCEPT ![1] = "reset"]
    /\ detection' = NotCalled
    /\ dt_i' = [dt_i EXCEPT ![1] = 0]
    /\ UNCHANGED <<total_requests, dt_attempt, pixels_detected>>
    /\ UNCHANGED <<commonVars, diskVars, pbsVars, smVars, bpVars, retryVars, variantVars,
                   portfolioVars>>

\* build_detection: `detection` is the value returned, dt_i[1] counts the
\* PixelDetection objects the call produced.
det_build_detection ==
    /\ program = "detector"
    /\ detection' = build_detection(detectors[1][1])
    /\ dt_i' = [dt_i EXCEPT ![1] = IF build_detection(detectors[1][1]) = None THEN 0 ELSE 1]
    /\ detectors' = [detectors EXCEPT ![1][1] = popped(@)]
    /\ scan_pc' = [scan_pc EXCEPT ![1] = "build_detection"]
    /\ UNCHANGED <<total_requests, dt_attempt, pixels_detected>>
    /\ UNCHANGED <<commonVars, diskVars, pbsVars, smVars, bpVars, retryVars, variantVars,
                   portfolioVars>>

InitDetector ==
    /\ program = "detector"
    /\ all_domains = <<>>
    /\ max_concurrent = 1
    /\ runs = 0
    /\ failed_scans = -1
    /\ EmptyDisk
    /\ IdlePBS
    /\ IdleSM
    /\ IdleBP
    /\ IdleScan
    /\ IdleVariants
    /\ IdlePortfolio
    /\ scan_pc = <<"new">>
    /\ detectors = << <<BasePixelDetector("meta_pixel")>> >>
    /\ dt_i = <<0>>
    /\ total_requests = <<0>>
    /\ dt_attempt = <<0>>
    /\ pixels_detected = << <<>> >>
    /\ detection = NotCalled

NextDetector ==
    \/ det_check_request
    \/ det_check_cookies
    \/ det_check_dom
    \/ det_reset
    \/ det_build_detection

\* ---- the detectors inside concurrent PixelScanner._scan_domain_impl calls
\* `detectors = get_all_detectors()` at the start of an attempt.
impl_get_detectors(s) ==
    /\ program = "impl"
    /\ scan_pc[s] = "start"
    /\ detectors' = [detectors EXCEPT ![s] = get_all_detectors]
    /\ dt_i' = [dt_i EXCEPT ![s] = 0]
    /\ total_requests' = [total_requests EXCEPT ![s] = 0]
    /\ scan_pc' = [scan_pc EXCEPT ![s] = "page"]
    /\ UNCHANGED <<dt_attempt, pixels_detected, detection>>
    /\ UNCHANGED <<commonVars, diskVars, pbsVars, smVars, bpVars, retryVars, variantVars,
                   portfolioVars>>

\* handle_request: the first detector whose check_request matches records
\* the request; `matches` is that detector, 0 when none matches.
handle_request(s) ==
    /\ program = "impl"
    /\ scan_pc[s] = "page"
    /\ total_requests[s] < MaxRequests
    /\ total_requests' = [total_requests EXCEPT ![s] = @ + 1]
    /\ \E matches \in 0..Len(detectors[s]) :
          detectors' =
              IF matches = 0 THEN detectors
              ELSE [detectors EXCEPT ![s][matches] =
                       check_request(@, IF matches = 1 THEN "123456" ELSE "none")]
    /\ UNCHANGED <<scan_pc, dt_i, dt_attempt, pixels_detected, detection>>
    /\ UNCHANGED <<commonVars, diskVars, pbsVars, smVars, bpVars, retryVars, variantVars,
                   portfolioVars>>

\* What the page shows one detector in the scans explored: nothing, one of
\* its cookies, or one of its scripts with a pixel id in it.
Nothing == [script |-> FALSE, pixel_id |-> "none", global |-> FALSE, element |-> FALSE,
            meta |-> FALSE]
PageFindings ==
    { [cookies |-> {}, dom |-> Nothing],
      [cookies |-> {"_fbp"}, dom |-> Nothing],
      [cookies |-> {}, dom |-> [Nothing EXCEPT !.script = TRUE, !.pixel_id = "123456"]] }

\* One round of `for detector in detectors: await detector.check_cookies(page);
\* await detector.check_dom(page)`. Neither call is inside a try block here
\* or in the detector: when the page evaluation throws, the exception leaves
\* _scan_domain_impl, and with it the locals detectors and total_requests.
impl_check(s) ==
    /\ program = "impl"
    /\ scan_pc[s] = "page"
    /\ dt_i[s] < Len(detectors[s])
    /\ \/ /\ scan_pc' = [scan_pc EXCEPT ![s] = "raised"]
          /\ detectors' = [detectors EXCEPT ![s] = <<>>]
          /\ dt_i' = [dt_i EXCEPT ![s] = 0]
          /\ total_requests' = [total_requests EXCEPT ![s] = 0]
       \/ \E found \in PageFindings :
             /\ detectors' = [detectors EXCEPT ![s][dt_i[s] + 1] =
                                 check_dom(check_cookies(@, found.cookies), found.dom)]
             /\ dt_i' = [dt_i EXCEPT ![s] = @ + 1]
             /\ UNCHANGED <<scan_pc, total_requests>>
    /\ UNCHANGED <<dt_attempt, pixels_detected, detection>>
    /\ UNCHANGED <<commonVars, diskVars, pbsVars, smVars, bpVars, retryVars, variantVars,
                   portfolioVars>>

RECURSIVE Detections(_)
\* `for detector in detectors: detection = detector.build_detection();
\*  if detection: pixels_detected.append(detection)`
Detections(ds) ==
    IF ds = <<>> THEN <<>>
    ELSE IF build_detection(Head(ds)) = None THEN Detections(Tail(ds))
    ELSE <<build_detection(Head(ds))>> \o Detections(Tail(ds))

\* The build loop and the return of the ScanResult (no await in between);
\* the locals detectors and total_requests end with the call.
impl_return(s) ==
    /\ program = "impl"
    /\ scan_pc[s] = "page"
    /\ dt_i[s] = Len(detectors[s])
    /\ pixels_detected' = [pixels_detected EXCEPT ![s] = Detections(detectors[s])]
    /\ detectors' = [detectors EXCEPT ![s] = <<>>]
    /\ dt_i' = [dt_i EXCEPT ![s] = 0]
    /\ total_requests' = [total_requests EXCEPT ![s] = 0]
    /\ scan_pc' = [scan_pc EXCEPT ![s] = "returned"]
    /\ UNCHANGED <<dt_attempt, detection>>
    /\ UNCHANGED <<commonVars, diskVars, pbsVars, smVars, bpVars, retryVars, variantVars,
                   portfolioVars>>

\* exponential_backoff_retry after the exception: another attempt when the
\* error is retryable and the budget allows, else scan_domain returns the
\* failure result.
impl_retry(s) ==
    /\ program = "impl"
    /\ scan_pc[s] = "raised"
    /\ \E again \in BOOLEAN :
          IF again /\ dt_attempt[s] < MaxAttempts
          THEN /\ dt_attempt' = [dt_attempt EXCEPT ![s] = @ + 1]
               /\ scan_pc' = [scan_pc EXCEPT ![s] = "start"]
          ELSE /\ scan_pc' = [scan_pc EXCEPT ![s] = "failed"]
               /\ UNCHANGED dt_attempt
    /\ UNCHANGED <<detectors, dt_i, total_requests, pixels_detected, detection>>
    /\ UNCHANGED <<commonVars, diskVars, pbsVars, smVars, bpVars, retryVars, variantVars,
                   portfolioVars>>

InitImpl ==
    /\ program = "impl"
    /\ all_domains = <<>>
    /\ max_concurrent = 1
    /\ runs = 0
    /\ failed_scans = -1
    /\ EmptyDisk
    /\ IdlePBS
    /\ IdleSM
    /\ IdleBP
    /\ IdleScan
    /\ IdleVariants
    /\ IdlePortfolio
    /\ scan_pc = [s \in Scans |-> "start"]
    /\ detectors = [s \in Scans |-> <<>>]
    /\ dt_i = [s \in Scans |-> 0]
    /\ total_requests = [s \in Scans |-> 0]
    /\ dt_attempt = [s \in Scans |-> 0]
    /\ pixels_detected = [s \in Scans |-> <<>>]
    /\ detection = NotCalled

NextImpl ==
    \/ \E s \in Scans : impl_get_detectors(s)
    \/ \E s \in Scans : handle_request(s)
    \/ \E s \in Scans : impl_check(s)
    \/ \E s \in Scans : impl_return(s)
    \/ \E s \in Scans : impl_retry(s)

InitDetectors == InitDetector \/ InitImpl
NextDetectors == NextDetector \/ NextImpl
SpecDetectors == InitDetectors /\ [][NextDetectors]_vars

\* ============================================ the per-domain result file names
\* Domains written as lists of characters and runs of characters.
HostNames ==
    { <<"a", ".", "com">>,
      <<"b", ".", "com">>,
      <<"a", ".", "b", ".", "com">>,
      <<"a", "_", "b", ".", "com">>,
      <<"a", "-", "b", ".", "com">> }

\* The lines of a ProductionBatchScanner input file, which may hold a path.
FileLines == HostNames \cup { <<"a", ".", "com", "/", "b">>, <<"a", ".", "com", "_", "b">> }

\* s.replace(old, "_")
replace(s, old) == [k \in 1..Len(s) |-> IF s[k] = old THEN "_" ELSE s[k]]

\* ProductionBatchScanner.save_result of the result of domain d: the file
\* is written, then process_domain adds d to completed_domains.
save_result_file(d) ==
    /\ program = "save_result"
    /\ d \in Range(all_domains) \ completed_domains
    /\ result_files' = Put(result_files, replace(replace(d, "."), "/"), d)
    /\ completed_domains' = completed_domains \cup {d}
    /\ UNCHANGED <<pbs_state, failed_domains, tasks, semaphore, checkpoint_file, temp_file>>
    /\ UNCHANGED <<commonVars, smVars, bpVars, retryVars, variantVars, portfolioVars,
                   detectorVars>>

\* BatchProcessor.process_batch: `result.domain.replace('.', '_')`.
bp_result_file(d) ==
    /\ program = "bp_result_file"
    /\ d \in Range(all_domains) \ completed_domains
    /\ result_files' = Put(result_files, replace(d, "."), d)
    /\ completed_domains' = completed_domains \cup {d}
    /\ UNCHANGED <<pbs_state, failed_domains, tasks, semaphore, checkpoint_file, temp_file>>
    /\ UNCHANGED <<commonVars, smVars, bpVars, retryVars, variantVars, portfolioVars,
                   detectorVars>>

\* ProductionScanner.run_scanner.process_domain: safe_name.
ps_result_file(d) ==
    /\ program = "ps_result_file"
    /\ d \in Range(all_domains) \ completed_domains
    /\ result_files' = Put(result_files, replace(replace(d, "."), "/"), d)
    /\ completed_domains' = completed_domains \cup {d}
    /\ UNCHANGED <<pbs_state, failed_domains, tasks, semaphore, checkpoint_file, temp_file>>
    /\ UNCHANGED <<commonVars, smVars, bpVars, retryVars, variantVars, portfolioVars,
                   detectorVars>>

\* One batch run over two or three different domains.
InitResultFiles ==
    /\ \/ /\ program = "save_result"
          /\ all_domains \in UNION {[1..n -> FileLines] : n \in 2..3}
       \/ /\ program \in {"bp_result_file", "ps_result_file"}
          /\ all_domains \in UNION {[1..n -> HostNames] : n \in 2..3}
    /\ \A j, k \in 1..Len(all_domains) : all_domains[j] = all_domains[k] => j = k
    /\ max_concurrent = 1
    /\ runs = 0
    /\ failed_scans = -1
    /\ EmptyDisk
    /\ IdlePBS
    /\ IdleSM
    /\ IdleBP
    /\ IdleScan
    /\ IdleVariants
    /\ IdlePortfolio
    /\ IdleDetectors

NextResultFiles ==
    \/ \E d \in FileLines : save_result_file(d)
    \/ \E d \in HostNames : bp_result_file(d)
    \/ \E d \in HostNames : ps_result_file(d)

SpecResultFiles == InitResultFiles /\ [][NextResultFiles]_vars

\* The three resumable drivers that keep failures in their ledger or result
\* files: ProductionScanner, LocalBatchManager, ProductionBatchScanner.
InitResume == InitPS \/ InitLBM \/ InitPBS
NextResume == NextPS \/ NextLBM \/ NextPBS
SpecResume == InitResume /\ [][NextResume]_vars

\* The two drivers whose save_checkpoint the run calls as it goes:
\* BatchProcessor and ProductionBatchScanner.
InitSaving == InitBP \/ InitPBS
NextSaving == NextBP \/ NextPBS
SpecSaving == InitSaving /\ [][NextSaving]_vars

\* The three drivers that read a checkpoint with load_checkpoint:
\* BatchProcessor, ProductionScanner, ProductionBatchScanner.
InitLoading == InitBP \/ InitPS \/ InitPBS
NextLoading == NextBP \/ NextPS \/ NextPBS
SpecLoading == InitLoading /\ [][NextLoading]_vars

\* ===================================================================== claims
\* Tasks inside the `async with semaphore` block of process_domain, and of
\* scan_with_semaphore.
InFlight ==
    {i \in DOMAIN tasks :
        tasks[i].pc \in {"scan", "save_result", "dns_sleep", "ckpt_open", "ckpt_write",
                         "progress", "ckpt"}}
SmInFlight == {i \in DOMAIN sm_tasks : sm_tasks[i].pc \in {"scan", "sleep"}}

\* C1: at every moment the number of tasks holding a permit of the admission
\* semaphore is at most max_concurrent, in ProductionBatchScanner.run and in
\* PixelScanner.scan_multiple.
C1_AdmissionBound ==
    /\ Cardinality(InFlight) <= max_concurrent
    /\ Cardinality(SmInFlight) <= max_concurrent

\* C1, its case: every permit is taken and a task is waiting at the gate.
C1_GateFull ==
    /\ program = "pbs"
    /\ Cardinality(InFlight) = max_concurrent
    /\ \E i \in DOMAIN tasks : tasks[i].pc = "wait"

\* C2: no domain is in flight in two process_domain tasks at the same time.
C2_NoDoubleScan ==
    \A i, j \in InFlight : tasks[i].domain = tasks[j].domain => i = j

C4_LedgerPartition ==
    (program = "processor" /\ checkpoint_file.state = "ok") =>
        \A d \in Range(all_domains) :
            LET in_completed == d \in checkpoint_file.completed
                in_failed == d \in DOMAIN checkpoint_file.failed
                in_remaining == d \in Range(checkpoint_file.remaining)
            IN /\ in_completed \/ in_failed \/ in_remaining
               /\ ~(in_completed /\ in_failed)
               /\ ~(in_completed /\ in_remaining)
               /\ ~(in_failed /\ in_remaining)

\* C5: a scan outcome is in the in-memory ledger only once its result file is
\* on disk (the file is written before the ledger is updated).
C5_ResultFileBeforeLedger ==
    \A d \in bp_completed \cup {x \in DOMAIN bp_failed : bp_failed[x] = "error"} :
        d \in DOMAIN result_files

C7_CheckpointNeverPartial ==
    /\ checkpoint_file.state \in {"absent", "ok"}
    /\ bp_state = "ckpt_replace" => temp_file.state = "ok"

\* C7, its case: the process was killed in the middle of a checkpoint write,
\* and the next start has loaded the previous complete checkpoint.
C7_KilledMidWriteThenLoaded ==
    /\ runs = 2
    /\ bp_state = "loop"
    /\ temp_file.state = "torn"
    /\ checkpoint_file.state = "ok"

\* C8: a kill in the middle of save_checkpoint of ProductionBatchScanner or of
\* ProductionScanner never leaves a partial checkpoint file for the next
\* start.
C8_KillLeavesCompleteCheckpoint ==
    pbs_state = "killed" => checkpoint_file.state # "torn"

C10_CheckpointCadence == unsaved <= checkpoint_interval

\* C11: once should_stop is set no scan is started (no chunk is handed to
\* scan_multiple, no domain of the chunk in progress is admitted), and when
\* process_batch returns the checkpoint file holds the ledger.
C11_GracefulShutdown ==
    [][/\ should_stop =>
            /\ ~(bp_state = "loop" /\ bp_state' = "scan")
            /\ \A i \in DOMAIN sm_tasks :
                  (sm_state = "running" /\ sm_tasks[i].pc = "wait") => sm_tasks'[i].pc = "wait"
       /\ (program = "processor" /\ bp_state' = "returned") =>
            /\ checkpoint_file'.state = "ok"
            /\ checkpoint_file'.completed = bp_completed'
            /\ checkpoint_file'.failed = bp_failed']_vars

\* C12: a run of ProductionBatchScanner or ProductionScanner that starts from
\* a checkpoint creates no task for a domain the checkpoint lists as
\* completed, and scans only the domains of the tasks it created.
C12_NoRescanOfCompleted ==
    [][/\ (pbs_state # "running" /\ pbs_state' = "running") =>
            \A i \in DOMAIN tasks' : tasks'[i].domain \notin checkpoint_file.completed
       /\ (pbs_state = "running" /\ pbs_state' \in {"running", "ckpt_open", "ckpt_write"}) =>
            /\ DOMAIN tasks' = DOMAIN tasks
            /\ \A i \in DOMAIN tasks : tasks'[i].domain = tasks[i].domain]_vars

\* C12, its case: a second run has loaded a checkpoint that lists a completed
\* domain and is scanning another domain.
C12_ResumedAndScanning ==
    /\ runs = 2
    /\ completed_domains # {}
    /\ \E i \in DOMAIN tasks : tasks[i].pc = "scan" /\ tasks[i].retry_count = 0
    /\ \A i \in DOMAIN tasks : tasks[i].pc \in {"scan", "wait"}

LastOutcomeFailed(d) ==
    /\ checkpoint_file.state = "ok"
    /\ \E n \in DOMAIN all_domains : clean_domain(all_domains[n]) = d
    /\ CASE program = "pbs" ->
              /\ d \in DOMAIN checkpoint_file.failed
              /\ d \notin checkpoint_file.completed
              /\ checkpoint_file.failed[d] < max_retries
         [] program = "prod" -> d \in DOMAIN result_files /\ ~result_files[d]
         [] program = "manager" -> d \in DOMAIN checkpoint_file.failed
         [] OTHER -> FALSE

\* C14: a run that starts from a checkpoint hands every domain whose last
\* outcome was a failure (budget not exhausted) to the scan again.
C14_FailedScannedAgain ==
    [][(runs >= 1 /\ runs' = runs + 1) =>
          \A d \in Domains :
              LastOutcomeFailed(d) =>
                  \/ \E i \in DOMAIN tasks' : tasks'[i].domain = d
                  \/ \E n \in DOMAIN bp_domains' : clean_domain(bp_domains'[n]) = d]_vars

C17_EveryOutcomeRecorded ==
    (program = "pbs" /\ pbs_state = "returned") =>
        \A i \in DOMAIN tasks :
            tasks[i].domain \in completed_domains \cup DOMAIN failed_domains

\* C18: a save_checkpoint that fails (the open or the write raises) leaves
\* the in-memory ledger as it was and the run goes on: the task of
\* ProductionBatchScanner moves on to update_progress, process_batch does not
\* end with the exception.
C18_CheckpointFailureTolerated ==
    [][/\ \A i \in DOMAIN tasks :
            (/\ program = "pbs"
             /\ pbs_state = "running"
             /\ pbs_state' = "running"
             /\ tasks'[i].pc # tasks[i].pc
             /\ \/ tasks[i].pc = "ckpt_open" /\ tasks'[i].pc # "ckpt_write"
                \/ tasks[i].pc = "ckpt_write" /\ checkpoint_file' = checkpoint_file) =>
                  /\ tasks'[i].pc = "progress"
                  /\ completed_domains' = completed_domains
                  /\ failed_domains' = failed_domains
       /\ (/\ program = "processor"
           /\ bp_state = "ckpt_open"
           /\ bp_state' \notin {"ckpt_open", "ckpt_write", "killed"}) =>
                  /\ bp_state' # "raised"
                  /\ bp_completed' = bp_completed
                  /\ bp_failed' = bp_failed]_vars

\* C19: a run that finds no checkpoint file starts with an empty ledger, and
\* a run that finds a checkpoint file it cannot parse stops there: no task is
\* created, no chunk loop is entered (so nothing is scanned and nothing
\* written).
C19_LoadCheckpoint ==
    [][(runs' = runs + 1) =>
          /\ checkpoint_file.state = "absent" =>
                /\ program \in {"pbs", "prod"} =>
                      completed_domains' = {} /\ failed_domains' = EmptyDict
                /\ program = "processor" =>
                      bp_completed' = {} /\ bp_failed' = EmptyDict /\ bp_state' = "loop"
          /\ checkpoint_file.state = "torn" =>
                /\ program \in {"pbs", "prod"} => pbs_state' # "running" /\ tasks' = <<>>
                /\ program = "processor" => bp_state' = "raised"]_vars

\* C20: exponential_backoff_retry calls func at most max_retries + 1 times; a
\* call that returns ends scan_domain with that result and no further call;
\* an exception out of the retry (all attempts used up on retryable errors,
\* or an error that is not retried) is returned by scan_domain as a failure
\* result carrying that last error, never raised.
C20_BoundedRetry ==
    program = "scan_domain" =>
        /\ calls <= rt_max_retries + 1
        /\ sd_state \in {"start", "call", "sleep", "except", "returned"}
        /\ (sd_state = "returned" /\ raised = "none" /\ calls > 0) =>
              sd_result.success /\ calls = attempt + 1
        /\ (sd_state = "returned" /\ raised # "none") =>
              /\ raised = last_exception
              /\ sd_result = [success |-> FALSE, error_message |-> last_exception]
              /\ retry_condition(raised) => calls = rt_max_retries + 1

\* C20, its case: every one of the max_retries + 1 attempts failed with an
\* error that is retried, and scan_domain has returned.
C20_AllAttemptsFailed ==
    /\ program = "scan_domain"
    /\ sd_state = "returned"
    /\ rt_max_retries >= 2
    /\ calls = rt_max_retries + 1
    /\ retry_condition(raised)

\* C21: once an attempt has failed with an error the retry predicate rejects
\* ("crash" names none of timeout, timed out, network, connection), that
\* error is the one raised, on the same attempt: no sleep follows and func is
\* not called again, whatever max_retries is.
C21_NonRetryableRaisedAtOnce ==
    (program = "scan_domain" /\ last_exception = "crash") =>
        /\ sd_state \in {"except", "returned"}
        /\ raised = "crash"
        /\ calls = attempt + 1

\* C21, its case: a later attempt failed with the rejected error while
\* attempts were left.
C21_CrashWithBudgetLeft ==
    /\ program = "scan_domain"
    /\ last_exception = "crash"
    /\ attempt >= 1
    /\ attempt < rt_max_retries

\* C22: the delay slept before a retry is min(initial_delay *
\* exponential_base^attempt, max_delay), scaled under jitter by a factor in
\* [0.5, 1.0]; so it never exceeds max_delay (delay is in tenths of a second).
C22_SleepWithinMaxDelay ==
    (program = "retry" /\ sd_state = "sleep") =>
        /\ delay <= 10 * rt_args.max_delay
        /\ \E factor \in 5..10 :
              delay = Jittered(Delay(rt_args, attempt), rt_args.jitter, factor)

\* C23: with jitter off, each delay is at least the delay slept before it and
\* at most max_delay (initial_delay >= 0, exponential_base >= 1; delay keeps
\* the previous sleep until the next one is computed, in tenths of a second).
C23_DelaysNonDecreasing ==
    [][(/\ program = "retry"
        /\ ~rt_args.jitter
        /\ sd_state = "call"
        /\ sd_state' = "sleep") =>
          /\ delay' >= delay
          /\ delay' <= 10 * rt_args.max_delay]_vars

\* C23, its case: a third delay has been computed with jitter off, below a
\* cap that an uncapped delay would pass.
C23_ThirdDelay ==
    /\ program = "retry"
    /\ ~rt_args.jitter
    /\ sd_state = "sleep"
    /\ attempt = 2
    /\ rt_args.exponential_base = 2
    /\ rt_args.initial_delay = 1
    /\ delay = 10 * rt_args.max_delay

\* C24: a scan_domain whose page navigation timed out or raised a network
\* error on its last attempt returns a failure with an error message; a
\* navigation failure is never returned as a successful scan.
C24_NavigationFailureIsFailure ==
    (program = "scan_domain" /\ sd_state = "returned" /\ navigated \in {"timeout", "network"}) =>
        /\ ~sd_result.success
        /\ sd_result.error_message # "none"


\* C25: scan_with_redirect tries the variants in list order, makes at most one
\* navigation per variant, makes none after a successful load, and returns
\* instead of raising.
C25_OrderedUntilFirstSuccess ==
    program = "scan_with_redirect" =>
        /\ \A k \in 1..Len(navigations) :
              /\ k < Len(navigations) =>
                    /\ navigations[k].variant < navigations[k + 1].variant
                    /\ navigations[k].outcome # "ok"
              /\ navigations[k].variant \in 1..Len(variations)
        /\ vr_state # "raised"

\* C26: when every URL variant fails, the error message of the failure
\* outcome is the error of the last variant attempted, never empty and never
\* an earlier variant's, in scan_with_redirect and in scan_domain.
C26_LastVariantsError ==
    (/\ program \in {"scan_with_redirect", "ps_scan_domain"}
     /\ vr_state = "returned"
     /\ ~vr_result.success) =>
        /\ vr_result.error_message.kind # "none"
        /\ vr_result.error_message.variant = Len(variations)

\* C27: a browser context opened for a variant is closed before the next
\* variant is attempted and before the scan returns, on every path.
C27_ContextsClosed ==
    program = "scan_with_redirect" =>
        /\ vr_state \in {"start", "open", "returned", "raised"} => contexts = {}
        /\ vr_state = "goto" => contexts = {vr_i}

\* The host the caller gave, lowercased, without protocol and trailing slash,
\* and the same host with the "www." prefix toggled.
GivenHost == SelectSeq(Lowered(vr_domain), LAMBDA piece : piece \notin Protocols \cup {"/"})
BareHost == SelectSeq(GivenHost, LAMBDA piece : piece # "www.")
OtherHost == IF GivenHost = BareHost THEN <<"www.">> \o BareHost ELSE BareHost

\* C28 as stated: normalize_domain returns https://d, https://www.d,
\* http://d, http://www.d for a bare domain d, and for a host given with the
\* www. prefix it also lists the bare form first, then the www. form, HTTPS
\* before HTTP.
C28_BareFormFirst ==
    (program = "scan_with_redirect" /\ vr_state # "start") =>
        variations = << <<"https://">> \o BareHost,
                        <<"https://", "www.">> \o BareHost,
                        <<"http://">> \o BareHost,
                        <<"http://", "www.">> \o BareHost >>

\* C28, amended: normalize_domain lists the host as the caller gave it first
\* and the host with the www. prefix toggled second, under HTTPS and then
\* under HTTP; for a bare domain d that is https://d, https://www.d,
\* http://d, http://www.d, for www.d it is https://www.d, https://d,
\* http://www.d, http://d.
C28_GivenFormFirst ==
    (program = "scan_with_redirect" /\ vr_state # "start") =>
        variations = << <<"https://">> \o GivenHost,
                        <<"https://">> \o OtherHost,
                        <<"http://">> \o GivenHost,
                        <<"http://">> \o OtherHost >>

C28_WwwHostNormalized ==
    /\ program = "scan_with_redirect"
    /\ vr_state # "start"
    /\ vr_domain = <<"http://", "WWW.", "A.COM", "/">>
    /\ variations[1] = <<"https://", "www.", "a.com">>
    /\ variations[2] = <<"https://", "a.com">>

\* C29: an input that fails validation is never added to domains_to_scan and
\* never scanned, and its output row has status rejected; every entry of
\* domains_to_scan is a validated domain.
C29_RejectedNeverScanned ==
    program = "portfolio" =>
        /\ \A k \in 1..Len(output) :
              ~validate_domain(input_rows[k].url).is_valid =>
                  output[k].scan_status = "rejected"
        /\ \A k \in 1..Len(pf_domains_to_scan) :
              \E r \in 1..Len(input_rows) :
                  /\ validate_domain(input_rows[r].url).is_valid
                  /\ validate_domain(input_rows[r].url).clean_domain = pf_domains_to_scan[k]
        /\ \A k \in 1..Len(scanned) :
              \E j \in 1..Len(pf_domains_to_scan) : scanned[k] = pf_domains_to_scan[j]

\* C30: rows whose URLs validate to the same domain cause one scan of that
\* domain, each of them gets its own output row carrying that outcome, and
\* the output has one row per input row.
C30_DuplicatesJoinOneScan ==
    program = "portfolio" =>
        /\ \A j, k \in 1..Len(pf_domains_to_scan) :
              pf_domains_to_scan[j] = pf_domains_to_scan[k] => j = k
        /\ \A j, k \in 1..Len(scanned) : scanned[j] = scanned[k] => j = k
        /\ \A k \in 1..Len(output) :
              /\ output[k].custom_id = input_rows[k].custom_id
              /\ output[k].url = input_rows[k].url
              /\ LET v == validate_domain(input_rows[k].url)
                 IN  v.is_valid =>
                        /\ output[k].domain = v.clean_domain
                        /\ output[k].scan_status =
                              IF v.clean_domain \in DOMAIN scan_results
                              THEN scan_results[v.clean_domain]
                              ELSE "not_scanned"
        /\ pf_state = "done" => Len(output) = Len(input_rows)

\* C40: every output row of the portfolio report is joined to the outcome of
\* its own url: rejected when the url failed validation, otherwise the domain
\* the url validated to and the status of that domain's result, also for rows
\* that share a custom_id.
C40_RowJoinedToOwnUrl ==
    (program = "portfolio" /\ pf_state = "done") =>
        \A k \in 1..Len(input_rows) :
            LET v == validate_domain(input_rows[k].url)
            IN  /\ output[k].domain = v.clean_domain
                /\ output[k].scan_status =
                      IF ~v.is_valid THEN "rejected"
                      ELSE IF v.clean_domain \in DOMAIN scan_results
                      THEN scan_results[v.clean_domain]
                      ELSE "not_scanned"

\* The five accumulators that count as evidence hold nothing.
NoEvidence(d) ==
    /\ d.network_requests = <<>>
    /\ d.script_tags = <<>>
    /\ d.cookies_found = {}
    /\ d.global_variables = <<>>
    /\ d.dom_elements = <<>>

\* C31: build_detection returns None when the five evidence accumulators are
\* all empty and exactly one PixelDetection when one of them is non-empty,
\* and it agrees with is_detected.
C31_EvidenceGating ==
    (program = "detector" /\ scan_pc[1] = "build_detection") =>
        LET d == detectors[1][1]
        IN  /\ NoEvidence(d) => detection = None /\ dt_i[1] = 0
            /\ ~NoEvidence(d) =>
                  /\ dt_i[1] = 1
                  /\ detection # None
                  /\ detection.type = d.pixel_type
                  /\ detection.evidence.cookies_set = d.cookies_found
                  /\ detection.evidence.network_requests = d.network_requests
            /\ detection # None <=> is_detected(d)

C31_OneCookieOneDetection ==
    /\ program = "detector"
    /\ scan_pc[1] = "build_detection"
    /\ detectors[1][1].cookies_found = {"_fbp"}
    /\ detectors[1][1].network_requests = <<>>
    /\ detectors[1][1].script_tags = <<>>
    /\ detectors[1][1].global_variables = <<>>
    /\ detectors[1][1].dom_elements = <<>>
    /\ detectors[1][1].meta_tags = <<"meta">>
    /\ detection # None
    /\ dt_i[1] = 1

\* All seven accumulators hold nothing.
AllEmpty(d) ==
    /\ NoEvidence(d)
    /\ d.meta_tags = <<>>
    /\ d.pixel_ids = {}

\* The step is one of scan s.
StepOf(s) ==
    \/ scan_pc'[s] # scan_pc[s]
    \/ dt_i'[s] # dt_i[s]
    \/ total_requests'[s] # total_requests[s]

\* C32: reset() empties all seven accumulators, so that is_detected is false
\* after it; every attempt of _scan_domain_impl, retries included, starts
\* with detectors whose accumulators are all empty; and a step of one scan
\* leaves the detectors of every other scan as they were.
C32_NoSharedDetectorState ==
    [][/\ (program = "detector" /\ scan_pc'[1] = "reset") =>
              /\ AllEmpty(detectors'[1][1])
              /\ build_detection(detectors'[1][1]) = None
       /\ program = "impl" =>
              \A s \in Scans :
                  /\ (scan_pc[s] = "start" /\ scan_pc'[s] = "page") =>
                        /\ Len(detectors'[s]) = Len(DETECTOR_REGISTRY)
                        /\ \A k \in 1..Len(detectors'[s]) : AllEmpty(detectors'[s][k])
                  /\ StepOf(s) =>
                        \A t \in Scans \ {s} : detectors'[t] = detectors[t]]_vars

C32_RetryNextToBusyScan ==
    /\ program = "impl"
    /\ dt_attempt[1] = 1
    /\ scan_pc[1] = "page"
    /\ dt_i[1] = 0
    /\ total_requests[1] = 0
    /\ scan_pc[2] = "page"
    /\ detectors[2][1].cookies_found = {"_fbp"}
    /\ AllEmpty(detectors[1][1])

\* C33: a detector's page evaluation that throws is swallowed for that
\* detector; the scan attempt completes and reports the detections of the
\* other detectors.
C33_DetectorErrorSwallowed ==
    program = "impl" =>
        \A s \in Scans :
            /\ scan_pc[s] \notin {"raised", "failed"}
            /\ dt_attempt[s] = 0

\* C34: scan_multiple returns one ScanResult per input domain, in the order of
\* the input list; the result of a domain the health pre-check skipped is a
\* failure, and no task (hence no scan_domain call) exists for it.
C34_OneResultPerDomainInOrder ==
    (program = "scanner" /\ sm_state = "returned") =>
        /\ Len(sm_results) = Len(all_domains)
        /\ \A n \in 1..Len(all_domains) :
              /\ n <= Len(sm_results)
              /\ sm_results[n].domain \in {all_domains[n], clean_domain(all_domains[n])}
              /\ should_skip(health_results[all_domains[n]]) => ~sm_results[n].success
        /\ \A i \in DOMAIN sm_tasks : ~should_skip(health_results[sm_tasks[i].domain])

\* C39: the retry budget in force when scan_with_semaphore calls scan_domain
\* depends on the domain's own health result only: the configured
\* max_retries for a domain that is not flagged, that value raised by two and
\* capped at 5 for a flagged one.
C39_BudgetFromOwnHealth ==
    [][program = "scanner" =>
          \A i \in DOMAIN sm_tasks :
              (/\ i \in DOMAIN sm_tasks'
               /\ sm_tasks[i].pc = "wait"
               /\ sm_tasks'[i].pc = "scan") =>
                  retry_config' =
                      IF should_retry(health_results[sm_tasks[i].domain])
                      THEN Min(scanner_max_retries + 2, RetryCeiling)
                      ELSE scanner_max_retries]_vars

\* C35: the result file names of two different domains of one run differ: a
\* domain whose result was written still has its own result in its file.
C35_ResultFilesCollisionFree ==
    program \in {"save_result", "bp_result_file", "ps_result_file"} =>
        /\ Cardinality(DOMAIN result_files) = Cardinality(completed_domains)
        /\ \A d \in completed_domains :
              \E name \in DOMAIN result_files : result_files[name] = d

C37_SucceededInputNotRemaining ==
    program = "processor" =>
        /\ checkpoint_file.state = "ok" =>
              \A n \in DOMAIN checkpoint_file.remaining :
                  ResultDomain(checkpoint_file.remaining[n]) \notin checkpoint_file.completed
        /\ bp_state = "scan" =>
              \A n \in DOMAIN bp_chunk : ResultDomain(bp_chunk[n]) \notin bp_completed

\* C38: scan_batch with resume=True, called after a run that returned and
\* left a progress file, scans the domains the file lists as remaining and no
\* others and starts from the ledger of the file: after a run that left no
\* domain remaining, the next run has nothing to scan.
C38_ResumeScansOnlyRemaining ==
    [][(/\ program = "manager"
        /\ bp_state = "returned"
        /\ runs' = runs + 1
        /\ checkpoint_file.state = "ok")
           => /\ bp_domains' = checkpoint_file.remaining
              /\ bp_completed' = checkpoint_file.completed
              /\ bp_failed' = checkpoint_file.failed]_vars
====
